---- MODULE Spec2Model ----
(***************************************************************************)
(* A model of lifeActuary: MortalityTable (mortality_table.py),            *)
(* CommutationFunctions (commutation_table.py) and the direct-summation    *)
(* annuities (annuities.py).                                               *)
(*                                                                         *)
(* Numbers.  Python/numpy floats are modelled by exact rationals in lowest *)
(* terms, so rounding is not modelled.  A value is a record                *)
(*   [k |-> kind, n |-> numerator, d |-> denominator]                      *)
(* whose kind is "num", "nan" (numpy.nan), "inf"/"ninf" (numpy division by *)
(* zero) or the name of the Python exception the evaluation raised.        *)
(* An exception raised in a sub-expression is the result of the whole      *)
(* expression; nan contaminates arithmetic, as in IEEE-754.                *)
(***************************************************************************)
EXTENDS Integers, Sequences, FiniteSets, TLC

VARIABLES
    obj,    \* the instance: the MortalityTable fields and, for a
            \* CommutationFunctions instance, the pricing fields
    msn,    \* the derivation log self.msn
    last    \* the last call made on the instance: operation, arguments, result

vars == <<obj, msn, last>>

-----------------------------------------------------------------------------
(* Bounds of the model *)

\* the largest age passed as an argument is w + AgeBeyond
AgeBeyond == 2
\* the most negative age passed as an argument is -AgeBelow
AgeBelow == 1
\* the largest integer term passed as an argument
MaxTerm == 3
\* the largest deferment passed as an argument
MaxDefer == 1
\* calls are made while the log holds fewer than MaxLog entries
MaxLog == 1

-----------------------------------------------------------------------------
(* Values and arithmetic *)

\* Python evaluates an expression once and binds the result to a name:
\* F applied to the value of v (of v and w)
Bind(v, F(_)) == CHOOSE r \in {F(u) : u \in {v}} : TRUE
Bind2(v, w, F(_, _)) == CHOOSE r \in {F(u1, u2) : u1 \in {v}, u2 \in {w}} : TRUE

Abs(a) == IF a < 0 THEN -a ELSE a

RECURSIVE GCD(_, _)
GCD(a, b) == IF b = 0 THEN a ELSE Bind(a % b, LAMBDA r : GCD(b, r))

\* the rational n/d (d # 0) in lowest terms with a positive denominator
Q(n, d) ==
    Bind2(n, d, LAMBDA n_, d_ :
    Bind2(IF d_ < 0 THEN -1 ELSE 1, GCD(Abs(n_), Abs(d_)), LAMBDA s, g :
        [k |-> "num", n |-> (s * n_) \div g, d |-> (s * d_) \div g]))

QI(i) == [k |-> "num", n |-> i, d |-> 1]
Zero == QI(0)
One == QI(1)
Half == Q(1, 2)
NaN == [k |-> "nan", n |-> 0, d |-> 1]
Inf == [k |-> "inf", n |-> 1, d |-> 1]
NegInf == [k |-> "ninf", n |-> -1, d |-> 1]
Raise(e) == [k |-> e, n |-> 0, d |-> 1]
\* a finite float that is not a ratio of two integers the model can hold: an
\* irrational root, or a ratio whose terms exceed MaxInt
Inexact == [k |-> "inexact", n |-> 0, d |-> 1]

Exceptions ==
    {"AttributeError", "IndexError", "TypeError", "ValueError",
     "ZeroDivisionError"}
IsNum(v) == v.k = "num"
IsNan(v) == v.k = "nan"
IsErr(v) == v.k \in Exceptions
IsInexact(v) == v.k = "inexact"
IsInfinite(v) == v.k \in {"inf", "ninf"}
IsInt(v) == v.k = "num" /\ v.d = 1
Sign(v) == IF v.n > 0 THEN 1 ELSE IF v.n < 0 THEN -1 ELSE 0
SignedInf(s) == IF s > 0 THEN Inf ELSE NegInf

\* comparisons of two numbers (Python's <, <=); a comparison with nan is False
qLt(x, y) ==
    Bind2(x, y, LAMBDA a, b : IsNum(a) /\ IsNum(b) /\ a.n * b.d < b.n * a.d)
qLe(x, y) ==
    Bind2(x, y, LAMBDA a, b : IsNum(a) /\ IsNum(b) /\ a.n * b.d <= b.n * a.d)
qGt(a, b) == qLt(b, a)
qGe(a, b) == qLe(b, a)

\* int(t) for t >= 0, and the integer a whole number stands for
Floor(a) == a.n \div a.d
IntOf(a) == a.n

qNeg(a) == [a EXCEPT !.n = -a.n]

\* the largest integer of the model, and whether p * q stays within half of it
MaxInt == (2 ^ 30 - 1) * 2 + 1
Fits(p, q) == q = 0 \/ Abs(p) <= (MaxInt \div 2) \div Abs(q)

\* the sum of two numbers
qAdd(a, b) ==
    Bind(GCD(a.d, b.d), LAMBDA g :
    Bind2(b.d \div g, a.d \div g, LAMBDA bd, ad :
        IF Fits(a.n, bd) /\ Fits(b.n, ad) /\ Fits(a.d, bd)
        THEN Q(a.n * bd + b.n * ad, a.d * bd)
        ELSE Inexact))

\* the product of two numbers, cancelling across before multiplying
qMul(a, b) ==
    Bind2(GCD(Abs(a.n), b.d), GCD(Abs(b.n), a.d), LAMBDA g1, g2 :
    Bind2(IF g1 = 0 THEN 1 ELSE g1, IF g2 = 0 THEN 1 ELSE g2, LAMBDA h1, h2 :
        IF Fits(a.n \div h1, b.n \div h2) /\ Fits(a.d \div h2, b.d \div h1)
        THEN Q((a.n \div h1) * (b.n \div h2), (a.d \div h2) * (b.d \div h1))
        ELSE Inexact))

qInv(a) == Q(a.d, a.n)

\* the first exception or nan among the operands of an arithmetic operation;
\* an operation on an inexact float is inexact
Propagate(a, b) ==
    IF IsErr(a) THEN a ELSE IF IsErr(b) THEN b
    ELSE IF IsNan(a) \/ IsNan(b) THEN NaN ELSE Inexact

Special(a, b) ==
    IsErr(a) \/ IsErr(b) \/ IsNan(a) \/ IsNan(b) \/ IsInexact(a) \/ IsInexact(b)

\* a + b on floats
fAdd(x, y) ==
    Bind2(x, y, LAMBDA a, b :
        IF Special(a, b) THEN Propagate(a, b)
        ELSE IF IsInfinite(a) /\ IsInfinite(b) THEN (IF a = b THEN a ELSE NaN)
        ELSE IF IsInfinite(a) THEN a
        ELSE IF IsInfinite(b) THEN b
        ELSE qAdd(a, b))

\* -a on floats
fNeg(x) ==
    Bind(x, LAMBDA a :
        IF IsErr(a) \/ IsNan(a) \/ IsInexact(a) THEN a
        ELSE IF IsInfinite(a) THEN SignedInf(-a.n)
        ELSE qNeg(a))

\* a - b on floats
fSub(x, y) ==
    Bind2(x, y, LAMBDA a, b : fAdd(a, IF IsErr(a) THEN b ELSE fNeg(b)))

\* a * b on floats
fMul(x, y) ==
    Bind2(x, y, LAMBDA a, b :
        IF Special(a, b) THEN Propagate(a, b)
        ELSE IF IsInfinite(a) \/ IsInfinite(b)
             THEN (IF Sign(a) * Sign(b) = 0 THEN NaN
                   ELSE SignedInf(Sign(a) * Sign(b)))
        ELSE qMul(a, b))

\* a / b where the operands are numpy floats: a zero divisor gives inf or nan
fDiv(x, y) ==
    Bind2(x, y, LAMBDA a, b :
        IF Special(a, b) THEN Propagate(a, b)
        ELSE IF IsInfinite(a) /\ IsInfinite(b) THEN NaN
        ELSE IF IsInfinite(a)
             THEN (IF Sign(b) < 0 THEN SignedInf(-Sign(a)) ELSE a)
        ELSE IF IsInfinite(b) THEN Zero
        ELSE IF b.n = 0 THEN (IF a.n = 0 THEN NaN ELSE SignedInf(Sign(a)))
        ELSE Bind(qInv(b), LAMBDA c : qMul(a, c)))

\* a / b where both operands are Python numbers: a zero divisor raises
pDiv(x, y) ==
    Bind2(x, y, LAMBDA a, b :
        IF Special(a, b) THEN Propagate(a, b)
        ELSE IF b.n = 0 THEN Raise("ZeroDivisionError")
        ELSE Bind(qInv(b), LAMBDA c : qMul(a, c)))

\* the largest integer k with k*k <= n, by bisection on lo..hi
RECURSIVE ISqrtIn(_, _, _)
ISqrtIn(n, lo, hi) ==
    IF lo >= hi THEN lo
    ELSE Bind((lo + hi + 1) \div 2, LAMBDA mid :
             IF mid <= n \div mid THEN ISqrtIn(n, mid, hi)
             ELSE ISqrtIn(n, lo, mid - 1))
ISqrt(n) == ISqrtIn(n, 0, IF n < 46340 THEN n ELSE 46340)

\* numpy.sqrt: exact for a ratio of squares, nan for a negative number
fSqrt(x) ==
    Bind(x, LAMBDA a :
        IF ~IsNum(a) THEN a
        ELSE IF a.n < 0 THEN NaN
        ELSE Bind2(ISqrt(a.n), ISqrt(a.d), LAMBDA rn, rd :
                 IF rn * rn = a.n /\ rd * rd = a.d THEN Q(rn, rd)
                 ELSE Inexact))

\* b ** e for an integer exponent e
RECURSIVE qPowInt(_, _)
qPowInt(b, e) ==
    IF e = 0 THEN One
    ELSE IF e < 0 THEN fDiv(One, qPowInt(b, -e))
    ELSE fMul(b, qPowInt(b, e - 1))

\* numpy.power(b, e): exact for a whole or a half exponent, or a base 0 or 1
fPow(x, y) ==
    Bind2(x, y, LAMBDA b, e :
        IF Special(b, e) THEN Propagate(b, e)
        ELSE IF e.d = 1 THEN qPowInt(b, e.n)
        ELSE IF e.d = 2 THEN Bind(fSqrt(b), LAMBDA r : qPowInt(r, e.n))
        ELSE IF b = One \/ (b = Zero /\ e.n > 0) THEN b
        ELSE IF b.n < 0 THEN NaN
        ELSE Inexact)

\* seq[i] for a Python index i (a value): negative indices count from the
\* end, an index out of range or not an integer raises IndexError
Index(seq, j) ==
    Bind(j, LAMBDA i :
        IF ~IsInt(i) THEN Raise("IndexError")
        ELSE IF 0 <= i.n /\ i.n < Len(seq) THEN seq[i.n + 1]
        ELSE IF -Len(seq) <= i.n /\ i.n < 0 THEN seq[Len(seq) + i.n + 1]
        ELSE Raise("IndexError"))

\* numpy.sum(seq[k:]) for 0 <= k, 0-based
RECURSIVE SumFrom(_, _)
SumFrom(seq, k) ==
    IF k >= Len(seq) THEN Zero ELSE fAdd(seq[k + 1], SumFrom(seq, k + 1))

\* [numpy.sum(seq[x:]) for x in range(len(seq))]
TailSums(seq) ==
    Bind(seq, LAMBDA s : [x \in 1..Len(s) |-> SumFrom(s, x - 1)])

-----------------------------------------------------------------------------
(* MortalityTable (mortality_table.py) *)

radical == 100000

methods == {"udd", "cfm", "bal"}

\* what an operation gives back: its value and the entries it appended to msn
R(v, log) == [v |-> v, log |-> log]

\* qx[-1] < 1 - .1e-10.  Every qx of the model is a rational whose
\* denominator is far below 10^11, for which this is qx[-1] < 1.
BelowCertainDeath(q) == qLt(q, One)

\* qx[-1] > .1e-10; for the rationals of the model this is qx[-1] > 0
AboveCertainSurvival(q) == qGt(q, Zero)

\* self.__qx as lines 42-57 build it from the raw vector mt[1:]
qx_build(data_type, mt, perc, last_q) ==
    Bind2(Tail(mt), pDiv(QI(perc), QI(100)), LAMBDA raw, pperc :
    Bind(IF qGt(raw[Len(raw)], Zero) THEN Append(raw, Zero) ELSE raw,
         LAMBDA rawl :
    Bind(IF data_type = "l"
         THEN [k \in 1..(Len(rawl) - 1) |->
                  fMul(fDiv(fSub(rawl[k], rawl[k + 1]), rawl[k]), pperc)]
         ELSE IF data_type = "q"
         THEN [k \in 1..Len(raw) |-> fMul(raw[k], pperc)]
         ELSE [k \in 1..Len(raw) |-> fMul(fSub(One, raw[k]), pperc)],
         LAMBDA q0 :
    Bind(IF last_q = 1 /\ BelowCertainDeath(q0[Len(q0)])
         THEN Append(q0, One) ELSE q0, LAMBDA q1 :
    Bind(IF last_q = 0 /\ AboveCertainSurvival(q1[Len(q1)])
         THEN Append(q1, Zero) ELSE q1, LAMBDA q2 :
        [k \in 1..IntOf(mt[1]) |-> Zero] \o q2)))))

\* lx[0] = radical, lx[k+1] = lx[k] * px[k] (lines 60, 63-64); the first
\* k+1 entries
RECURSIVE lx_build(_, _)
lx_build(px, k) ==
    IF k = 0 THEN <<QI(radical)>>
    ELSE Bind(lx_build(px, k - 1), LAMBDA prev :
             Append(prev, fMul(prev[k], px[k])))

\* the fields MortalityTable.__init__ sets; a CommutationFunctions instance
\* fills the pricing fields (priced = TRUE) on top of them
MortalityTable(data_type, mt, perc, last_q) ==
    Bind(qx_build(data_type, mt, perc, last_q), LAMBDA qx :
    Bind([k \in 1..Len(qx) |-> fSub(One, qx[k])], LAMBDA px :
    Bind(lx_build(px, Len(px)), LAMBDA lx :
    Bind2([k \in 1..Len(qx) |-> fMul(lx[k], qx[k])],
          [l \in 1..Len(qx) |-> SumFrom(lx, l - 1)], LAMBDA dx, sum_lx :
    Bind([k \in 1..Len(qx) |->
             IF k < Len(qx) THEN fAdd(fDiv(sum_lx[k + 1], lx[k]), Half)
             ELSE Half], LAMBDA ex :
        [data_type |-> data_type, mt |-> mt, x0 |-> IntOf(mt[1]),
         last_q |-> last_q,
         perc |-> perc, w |-> Len(lx) - 2,
         lx |-> lx, px |-> px, qx |-> qx, dx |-> dx, ex |-> ex,
         priced |-> FALSE, i |-> Zero, g |-> Zero, v |-> Zero, d |-> Zero,
         app_cont |-> FALSE, cont |-> Zero,
         Dx |-> <<>>, Nx |-> <<>>, Sx |-> <<>>,
         Cx |-> <<>>, Mx |-> <<>>, Rx |-> <<>>])))))

\* an instance on which no attribute has been set
Bare == [attr \in {} |-> Zero]

\* self.attr, needed to compute r, on an instance that may lack the attribute
WithAttr(o, attr, r) ==
    IF attr \in DOMAIN o THEN r ELSE R(Raise("AttributeError"), <<>>)

\* __init__ without the test of data_type: an unknown tag is read as 'p'
MortalityTable__init__any_type(data_type, mt, perc, last_q) ==
    IF mt = <<>> THEN Bare
    ELSE MortalityTable(data_type, mt, perc, last_q)

\* MortalityTable.__init__ on a new instance: it returns before setting any
\* attribute when data_type is unknown or mt is None or empty
MortalityTable__init__(data_type, mt, perc, last_q) ==
    IF data_type \notin {"l", "q", "p"} THEN Bare
    ELSE IF mt = <<>> THEN Bare
    ELSE MortalityTable(data_type, mt, perc, last_q)

\* lx_udd: linear interpolation of lx
lx_udd(o, t) ==
    IF qGt(t, QI(o.w + 1)) THEN Zero
    ELSE IF qLt(t, Zero) THEN NaN
    ELSE Bind(Floor(t), LAMBDA int_t :
         Bind(fSub(t, QI(int_t)), LAMBDA frac_t :
             IF frac_t = Zero THEN o.lx[int_t + 1]
             ELSE fAdd(fMul(o.lx[int_t + 1], fSub(One, frac_t)),
                       fMul(o.lx[int_t + 2], frac_t))))

\* lx_cfm: geometric interpolation of lx
lx_cfm(o, t) ==
    IF qGt(t, QI(o.w + 1)) THEN Zero
    ELSE IF qLt(t, Zero) THEN NaN
    ELSE Bind(Floor(t), LAMBDA int_t :
         Bind(fSub(t, QI(int_t)), LAMBDA frac_t :
             IF frac_t = Zero THEN o.lx[int_t + 1]
             ELSE fMul(o.lx[int_t + 1],
                       fPow(fDiv(o.lx[int_t + 2], o.lx[int_t + 1]), frac_t))))

\* lx_bal: harmonic interpolation of lx
lx_bal(o, t) ==
    IF qGt(t, QI(o.w + 1)) THEN Zero
    ELSE IF qLt(t, Zero) THEN NaN
    ELSE Bind(Floor(t), LAMBDA int_t :
         Bind(fSub(t, QI(int_t)), LAMBDA frac_t :
             IF frac_t = Zero THEN o.lx[int_t + 1]
             ELSE Bind(fSub(fDiv(One, o.lx[int_t + 1]),
                            fMul(frac_t, fSub(fDiv(One, o.lx[int_t + 1]),
                                              fDiv(One, o.lx[int_t + 2])))),
                       LAMBDA inv_lx : fDiv(One, inv_lx))))

\* get_lx_method returning 0 from age w on, not from w + 1 on
get_lx_method_zero_beyond_w(o, x, method) ==
    IF method \notin methods THEN NaN
    ELSE IF qLt(x, Zero) THEN NaN
    ELSE IF qGt(x, QI(o.w)) THEN Zero
    ELSE IF method = "udd" THEN lx_udd(o, x)
    ELSE IF method = "cfm" THEN lx_cfm(o, x)
    ELSE lx_bal(o, x)

\* lx at age x, interpolated by the method
get_lx_method(o, x, method) ==
    IF method \notin methods THEN NaN
    ELSE IF qLt(x, Zero) THEN NaN
    ELSE IF qGt(x, QI(o.w + 1)) THEN Zero
    ELSE IF method = "udd" THEN lx_udd(o, x)
    ELSE IF method = "cfm" THEN lx_cfm(o, x)
    ELSE lx_bal(o, x)

\* the probability that a life aged x dies before x+n
nqx(o, x, n, method) ==
    IF method \notin methods THEN R(NaN, <<>>)
    ELSE IF qLt(x, Zero) THEN R(NaN, <<>>)
    ELSE IF qLe(n, Zero) THEN R(Zero, <<>>)
    ELSE IF qGt(fAdd(x, n), QI(o.w + 1)) THEN R(o.qx[Len(o.qx)], <<>>)
    ELSE LET l_x == get_lx_method(o, x, method)
             l_x_t == get_lx_method(o, fAdd(x, n), method)
         IN  R(fSub(One, fDiv(l_x_t, l_x)), <<"nqx">>)

\* npx with the clamp of nqx: beyond w+1 it gives the terminal qx
npx_clamp_qx(o, x, n, method) ==
    IF method \notin methods THEN R(NaN, <<>>)
    ELSE IF qLt(x, Zero) THEN R(NaN, <<>>)
    ELSE IF qLe(n, Zero) THEN R(One, <<>>)
    ELSE IF qGt(fAdd(x, n), QI(o.w + 1)) THEN R(o.qx[Len(o.qx)], <<>>)
    ELSE R(fDiv(get_lx_method(o, fAdd(x, n), method),
                get_lx_method(o, x, method)), <<"npx">>)

\* the probability that a life aged x survives to x+n
npx(o, x, n, method) ==
    IF method \notin methods THEN R(NaN, <<>>)
    ELSE IF qLt(x, Zero) THEN R(NaN, <<>>)
    ELSE IF qLe(n, Zero) THEN R(One, <<>>)
    ELSE IF qGt(fAdd(x, n), QI(o.w + 1)) THEN R(o.px[Len(o.px)], <<>>)
    ELSE LET l_x == get_lx_method(o, x, method)
             l_x_t == get_lx_method(o, fAdd(x, n), method)
         IN  R(fDiv(l_x_t, l_x), <<"npx">>)

\* force_qw_0 leaving the terminal dx as it was
force_qw_0_keep_dx(o) ==
    [o EXCEPT !.qx[Len(o.qx)] = Zero,
              !.px[Len(o.px)] = One,
              !.lx[Len(o.lx)] = o.lx[Len(o.lx) - 1]]

\* force_qw_0: the fields after the terminal decrement is zeroed
force_qw_0(o) ==
    [o EXCEPT !.qx[Len(o.qx)] = Zero,
              !.px[Len(o.px)] = One,
              !.lx[Len(o.lx)] = o.lx[Len(o.lx) - 1],
              !.dx[Len(o.dx)] = Zero]

-----------------------------------------------------------------------------
(* CommutationFunctions (commutation_table.py) *)

a ++ b == fAdd(a, b)
a -- b == fSub(a, b)
a ** b == fMul(a, b)
a // b == fDiv(a, b)
a \prec b == qLt(a, b)
a \preceq b == qLe(a, b)
a \succ b == qGt(a, b)
a \succeq b == qGe(a, b)

Two == QI(2)

\* the construction with Nx[x] summing Dx from age x + 1 on, not from age x
CommutationFunctions_Nx_from_next(i, g, data_type, mt, perc, app_cont) ==
    Bind(MortalityTable(data_type, mt, perc, 1), LAMBDA t :
    Bind2(pDiv(QI(i), QI(100)), pDiv(QI(g), QI(100)), LAMBDA i_, g_ :
    Bind2(pDiv(One ++ g_, One ++ i_), fSqrt(One ++ i_), LAMBDA d_, cont_ :
    Bind2([x \in 1..(Len(t.lx) - 1) |-> t.lx[x] ** fPow(d_, QI(x - 1))],
          [x \in 1..Len(t.dx) |-> t.dx[x] ** fPow(d_, QI(x))],
          LAMBDA Dx_, Cx_ :
    Bind2([x \in 1..Len(Dx_) |-> SumFrom(Dx_, x)], TailSums(Cx_),
          LAMBDA Nx_, Mx_ :
    Bind2(TailSums(Nx_), TailSums(Mx_), LAMBDA Sx_, Rx_ :
        LET scaled(s) == IF app_cont
                         THEN [x \in 1..Len(s) |-> s[x] ** cont_] ELSE s
        IN  [t EXCEPT !.priced = TRUE, !.i = i_, !.g = g_,
                      !.v = pDiv(One, One ++ i_), !.d = d_,
                      !.app_cont = app_cont, !.cont = cont_,
                      !.Dx = Dx_, !.Nx = Nx_, !.Sx = Sx_,
                      !.Cx = scaled(Cx_), !.Mx = scaled(Mx_),
                      !.Rx = scaled(Rx_)]))))))

\* the instance CommutationFunctions.__init__ builds for an interest rate i
\* and a growth rate g given in percent; the table is built with the
\* default terminal convention last_q = 1
CommutationFunctions(i, g, data_type, mt, perc, app_cont) ==
    Bind(MortalityTable(data_type, mt, perc, 1), LAMBDA t :
    Bind2(pDiv(QI(i), QI(100)), pDiv(QI(g), QI(100)), LAMBDA i_, g_ :
    Bind2(pDiv(One ++ g_, One ++ i_), fSqrt(One ++ i_), LAMBDA d_, cont_ :
    Bind2([x \in 1..(Len(t.lx) - 1) |-> t.lx[x] ** fPow(d_, QI(x - 1))],
          [x \in 1..Len(t.dx) |-> t.dx[x] ** fPow(d_, QI(x))],
          LAMBDA Dx_, Cx_ :
    Bind2(TailSums(Dx_), TailSums(Cx_), LAMBDA Nx_, Mx_ :
    Bind2(TailSums(Nx_), TailSums(Mx_), LAMBDA Sx_, Rx_ :
        LET scaled(s) == IF app_cont
                         THEN [x \in 1..Len(s) |-> s[x] ** cont_] ELSE s
        IN  [t EXCEPT !.priced = TRUE, !.i = i_, !.g = g_,
                      !.v = pDiv(One, One ++ i_), !.d = d_,
                      !.app_cont = app_cont, !.cont = cont_,
                      !.Dx = Dx_, !.Nx = Nx_, !.Sx = Sx_,
                      !.Cx = scaled(Cx_), !.Mx = scaled(Mx_),
                      !.Rx = scaled(Rx_)]))))))

\* (m - 1) / (m * 2) on Python numbers
freq_term(m) == pDiv(m -- One, m ** Two)

\* the first exception among the values an f-string formats, else One
FirstErr(formatted) ==
    Bind(formatted, LAMBDA vals :
        IF \E k \in 1..Len(vals) : IsErr(vals[k])
        THEN vals[CHOOSE k \in 1..Len(vals) :
                     IsErr(vals[k]) /\ \A j \in 1..(k - 1) : ~IsErr(vals[j])]
        ELSE One)

\* the end of an operation that computed aux after its sub-calls logged log,
\* and then appends its own entry, formatting vals
Ret(value, log, vals, tag) ==
    Bind2(value, FirstErr(vals), LAMBDA aux, err :
        IF IsErr(aux) THEN R(aux, log)
        ELSE IF IsErr(err) THEN R(err, log)
        ELSE R(aux, Append(log, tag)))

\* nEx with the clamp at w tested before the term: 0 beyond w even for n <= 0
nEx_clamp_first(o, x, n) ==
    IF x \prec Zero THEN R(NaN, <<>>)
    ELSE IF (x ++ n) \succ QI(o.w) THEN R(Zero, <<>>)
    ELSE IF n \preceq Zero THEN R(One, <<>>)
    ELSE R((Index(o.Dx, x ++ n) // Index(o.Dx, x)) // fPow(One ++ o.g, n),
           <<"nEx">>)

\* nEx without the growth-rate factor: Dx[x + n] / Dx[x]
nEx_no_growth(o, x, n) ==
    IF x \prec Zero THEN R(NaN, <<>>)
    ELSE IF n \preceq Zero THEN R(One, <<>>)
    ELSE IF (x ++ n) \succ QI(o.w) THEN R(Zero, <<>>)
    ELSE R(Index(o.Dx, x ++ n) // Index(o.Dx, x), <<"nEx">>)

\* pure endowment
nEx(o, x, n) ==
    IF x \prec Zero THEN R(NaN, <<>>)
    ELSE IF n \preceq Zero THEN R(One, <<>>)
    ELSE IF (x ++ n) \succ QI(o.w) THEN R(Zero, <<>>)
    ELSE LET D_x == Index(o.Dx, x)
             D_x_n == Index(o.Dx, x ++ n)
         IN  IF IsErr(D_x) THEN R(D_x, <<>>)
             ELSE IF IsErr(D_x_n) THEN R(D_x_n, <<>>)
             ELSE R((D_x_n // D_x) // fPow(One ++ o.g, n), <<"nEx">>)

\* whole life annuity, immediate
ax(o, x, m) ==
    IF x \prec Zero THEN R(NaN, <<>>)
    ELSE IF m \prec Zero THEN R(NaN, <<>>)
    ELSE IF x \succeq QI(o.w) THEN R(Zero, <<>>)
    ELSE LET aux == ((Index(o.Nx, x ++ One) // Index(o.Dx, x)) // (One ++ o.g))
                    ++ freq_term(m)
         IN  Ret(aux, <<>>, <<>>, "ax")

\* whole life annuity, due
aax(o, x, m) ==
    IF x \succ QI(o.w) THEN R(One, <<>>)
    ELSE LET aux == (Index(o.Nx, x) // Index(o.Dx, x)) -- freq_term(m)
         IN  Ret(aux, <<>>, <<>>, "aax")

\* deferred whole life annuity, immediate
t_ax(o, x, m, defer) ==
    Bind2(ax(o, x ++ defer, m), nEx(o, x, defer), LAMBDA a, e :
    Bind2(a.v ** e.v, a.log \o e.log, LAMBDA aux, log :
        IF IsErr(a.v) THEN a
        ELSE IF IsErr(e.v) THEN R(e.v, a.log)
        ELSE IF aux \succ Zero
        THEN Ret(aux, log, <<Index(o.Nx, (x ++ One) ++ defer),
                             Index(o.Dx, x ++ defer), Index(o.Dx, x)>>, "t_ax")
        ELSE R(aux, log)))

\* deferred whole life annuity, due
t_aax(o, x, m, defer) ==
    Bind2(aax(o, x ++ defer, m), nEx(o, x, defer), LAMBDA a, e :
    Bind2(a.v ** e.v, a.log \o e.log, LAMBDA aux, log :
        IF IsErr(a.v) THEN a
        ELSE IF IsErr(e.v) THEN R(e.v, a.log)
        ELSE IF (x ++ defer) \prec QI(o.w)
        THEN Ret(aux, log, <<Index(o.Nx, x ++ defer),
                             Index(o.Dx, x ++ defer), Index(o.Dx, x)>>, "t_aax")
        ELSE R(aux, log)))

\* nax returning 0, not the whole-life value, once the term passes w
nax_zero_beyond_w(o, x, n, m) ==
    IF x \succeq QI(o.w) THEN R(Zero, <<>>)
    ELSE IF x \prec Zero THEN R(NaN, <<>>)
    ELSE IF m \prec Zero THEN R(NaN, <<>>)
    ELSE IF n \prec Zero THEN R(Zero, <<>>)
    ELSE IF ((x ++ One) ++ n) \preceq QI(o.w)
    THEN Bind2(((Index(o.Nx, x ++ One) -- Index(o.Nx, (x ++ One) ++ n))
                // Index(o.Dx, x)) // (One ++ o.g),
               freq_term(m), LAMBDA t1, f :
         Bind(nEx(o, x, n), LAMBDA e :
             IF IsErr(t1) THEN R(t1, <<>>)
             ELSE IF IsErr(f) THEN R(f, <<>>)
             ELSE Ret(t1 ++ (f ** (One -- e.v)), e.log,
                      <<Index(o.Dx, x ++ n)>>, "nax")))
    ELSE R(Zero, <<>>)

\* temporary annuity, immediate
nax(o, x, n, m) ==
    IF x \succeq QI(o.w) THEN R(Zero, <<>>)
    ELSE IF x \prec Zero THEN R(NaN, <<>>)
    ELSE IF m \prec Zero THEN R(NaN, <<>>)
    ELSE IF n \prec Zero THEN R(Zero, <<>>)
    ELSE IF ((x ++ One) ++ n) \preceq QI(o.w)
    THEN Bind2(((Index(o.Nx, x ++ One) -- Index(o.Nx, (x ++ One) ++ n))
                // Index(o.Dx, x)) // (One ++ o.g),
               freq_term(m), LAMBDA t1, f :
         Bind(nEx(o, x, n), LAMBDA e :
             IF IsErr(t1) THEN R(t1, <<>>)
             ELSE IF IsErr(f) THEN R(f, <<>>)
             ELSE Ret(t1 ++ (f ** (One -- e.v)), e.log,
                      <<Index(o.Dx, x ++ n)>>, "nax")))
    ELSE ax(o, x, m)

\* temporary annuity, due
naax(o, x, n, m) ==
    IF x \succeq QI(o.w) \/ n = One THEN R(One, <<>>)
    ELSE IF x \prec Zero THEN R(NaN, <<>>)
    ELSE IF m \prec Zero THEN R(NaN, <<>>)
    ELSE IF n \prec Zero THEN R(Zero, <<>>)
    ELSE IF ((x ++ One) ++ n) \preceq QI(o.w + 1)
    THEN Bind2((Index(o.Nx, x) -- Index(o.Nx, x ++ n)) // Index(o.Dx, x),
               freq_term(m), LAMBDA t1, f :
         Bind2(nEx(o, x, n),
               IF ((x ++ One) ++ n) \preceq QI(o.w)
               THEN Index(o.Nx, (x ++ One) ++ n) ELSE Zero, LAMBDA e, Nx2 :
             IF IsErr(t1) THEN R(t1, <<>>)
             ELSE IF IsErr(f) THEN R(f, <<>>)
             ELSE Ret(t1 -- (f ** (One -- e.v)), e.log,
                      <<Nx2, Index(o.Nx, x ++ One), Index(o.Dx, x ++ n)>>,
                      "naax")))
    ELSE aax(o, x, m)

\* deferred temporary annuity, immediate
t_nax(o, x, n, m, defer) ==
    Bind2(nax(o, x ++ defer, n, m), nEx(o, x, defer), LAMBDA a, e :
    Bind2(a.v ** e.v, a.log \o e.log, LAMBDA aux, log :
        IF IsErr(a.v) THEN a
        ELSE IF IsErr(e.v) THEN R(e.v, a.log)
        ELSE IF (((x ++ One) ++ n) ++ defer) \preceq QI(o.w)
        THEN Ret(aux, log,
                 <<Index(o.Nx, (x ++ One) ++ defer),
                   Index(o.Nx, ((x ++ One) ++ n) ++ defer),
                   Index(o.Dx, x ++ defer), Index(o.Dx, (x ++ n) ++ defer),
                   Index(o.Dx, x)>>, "t_nax")
        ELSE Bind(t_ax(o, x, m, defer), LAMBDA t : R(t.v, log \o t.log))))

\* deferred temporary annuity, due
t_naax(o, x, n, m, defer) ==
    Bind2(naax(o, x ++ defer, n, m), nEx(o, x, defer), LAMBDA a, e :
    Bind2(a.v ** e.v, a.log \o e.log, LAMBDA aux, log :
    Bind(IF (((x ++ One) ++ n) ++ defer) \preceq QI(o.w)
         THEN Index(o.Nx, ((x ++ One) ++ n) ++ defer) ELSE Zero, LAMBDA Nx2 :
        IF IsErr(a.v) THEN a
        ELSE IF IsErr(e.v) THEN R(e.v, a.log)
        ELSE IF (((x ++ One) ++ n) ++ defer) \preceq QI(o.w + 1)
        THEN Ret(aux, log,
                 <<Nx2, Index(o.Nx, (x ++ One) ++ defer),
                   Index(o.Dx, x ++ defer), Index(o.Dx, (x ++ n) ++ defer),
                   Index(o.Dx, x)>>, "t_naax")
        ELSE Bind(t_aax(o, x, m, defer), LAMBDA t : R(t.v, log \o t.log)))))

\* sum([increase_amount * t_nax(x + defer, n - j, m, defer + j - shift)
\*      for j in range(j, n)]) with the entries the calls log
RECURSIVE list_increases(_, _, _, _, _, _, _, _)
list_increases(o, x, n, m, defer, increase_amount, shift, j) ==
    IF j >= n THEN R(Zero, <<>>)
    ELSE Bind2(t_nax(o, x ++ defer, QI(n - j), m, defer ++ QI(j - shift)),
               list_increases(o, x, n, m, defer, increase_amount, shift, j + 1),
               LAMBDA t, rest :
             IF IsErr(t.v) THEN t
             ELSE IF IsErr(rest.v) THEN R(rest.v, t.log \o rest.log)
             ELSE R((increase_amount ** t.v) ++ rest.v, t.log \o rest.log))

\* increasing/decreasing annuity, immediate; n is an integer
t_nIax(o, x, n, m, defer, first_amount, increase_amount) ==
    IF (first_amount ++ ((n -- One) ** increase_amount)) \prec Zero
    THEN R(NaN, <<>>)
    ELSE IF ((x ++ n) ++ defer) \succ QI(o.w) THEN R(Zero, <<>>)
    ELSE Bind2(t_nax(o, x, n, m, defer),
               list_increases(o, x, IntOf(n), m, defer, increase_amount, 0, 1),
               LAMBDA t, incs :
             IF IsErr(t.v) THEN t
             ELSE IF IsErr(incs.v) THEN R(incs.v, t.log \o incs.log)
             ELSE R((first_amount ** t.v) ++ incs.v, t.log \o incs.log))

\* increasing/decreasing annuity, due; n is an integer
t_nIaax(o, x, n, m, defer, first_amount, increase_amount) ==
    IF (first_amount ++ ((n -- One) ** increase_amount)) \prec Zero
    THEN R(NaN, <<>>)
    ELSE IF ((x ++ n) ++ defer) \succ QI(o.w) THEN R(Zero, <<>>)
    ELSE Bind2(t_naax(o, x, n, m, defer),
               list_increases(o, x, IntOf(n), m, defer, increase_amount, 1, 1),
               LAMBDA t, incs :
             IF IsErr(t.v) THEN t
             ELSE IF IsErr(incs.v) THEN R(incs.v, t.log \o incs.log)
             ELSE R((first_amount ** t.v) ++ incs.v, t.log \o incs.log))

\* Python's None, as the value of an optional argument
PyNone == [k |-> "None", n |-> 0, d |-> 1]

\* the probs argument of present_value: None, a scalar or a vector
ProbsNone == [kind |-> "None", scalar |-> Zero, vector |-> <<>>]
ProbsScalar(p) == [kind |-> "scalar", scalar |-> p, vector |-> <<>>]
ProbsVector(ps) == [kind |-> "vector", scalar |-> Zero, vector |-> ps]

\* numpy.cumprod(1 / (1 + numpy.array(spot_rates) / 100.)): the first k factors
RECURSIVE discount(_, _)
discount(spot_rates, k) ==
    IF k = 0 THEN One
    ELSE discount(spot_rates, k - 1)
         ** (One // (One ++ (spot_rates[k] // QI(100))))

\* the log of a sequence of results, in order
RECURSIVE Logs(_, _)
Logs(rs, k) == IF k > Len(rs) THEN <<>> ELSE rs[k].log \o Logs(rs, k + 1)

\* sum(terms) for a Python list of numbers, from the left, starting at 0
RECURSIVE PySum(_, _)
PySum(terms, k) ==
    IF k = 0 THEN Zero ELSE PySum(terms, k - 1) ++ terms[k]

\* present value of a series of cash-flows
present_value(o, probs, age, spot_rates, capital) ==
    IF Len(spot_rates) # Len(capital) THEN R(NaN, <<>>)
    ELSE IF probs.kind = "None" /\ age = PyNone THEN R(NaN, <<>>)
    ELSE IF probs.kind = "vector" THEN R(Raise("TypeError"), <<>>)
    ELSE Bind(IF probs.kind = "None"
              THEN [n \in 1..Len(capital) |-> npx(o, age, QI(n), "udd")]
              ELSE [n \in 1..Len(capital) |-> R(probs.scalar, <<>>)],
              LAMBDA probs_ :
         Bind([k \in 1..Len(capital) |->
                  (probs_[k].v ** capital[k]) ** discount(spot_rates, k)],
              LAMBDA terms :
             R(PySum(terms, Len(capital)), Logs(probs_, 1))))

\* whole life insurance, paid at the end of the year of death
Ax(o, x) ==
    IF x \prec Zero THEN R(NaN, <<>>)
    ELSE IF x \succ QI(o.w) THEN R(o.v, <<>>)
    ELSE LET D_x == Index(o.Dx, x)
             M_x == IF o.app_cont THEN Index(o.Mx, x) // o.cont
                    ELSE Index(o.Mx, x)
         IN  IF IsErr(D_x) THEN R(D_x, <<>>)
             ELSE Ret((M_x // D_x) // (One ++ o.g), <<>>, <<>>, "Ax")

\* Ax_ applying the half-year adjustment whatever the flag app_cont
Ax__always_adjusts(o, x) ==
    IF x \prec Zero THEN R(NaN, <<>>)
    ELSE IF x \succ QI(o.w) THEN R(fPow(o.v, Half), <<>>)
    ELSE LET D_x == Index(o.Dx, x)
             M_x == Index(o.Mx, x) ** o.cont
         IN  IF IsErr(D_x) THEN R(D_x, <<>>)
             ELSE Ret((M_x // D_x) // (One ++ o.g), <<>>, <<>>, "Ax_")

\* whole life insurance, paid at the moment of death
Ax_(o, x) ==
    IF x \prec Zero THEN R(NaN, <<>>)
    ELSE IF x \succ QI(o.w) THEN R(fPow(o.v, Half), <<>>)
    ELSE LET D_x == Index(o.Dx, x)
             M_x == IF o.app_cont THEN Index(o.Mx, x)
                    ELSE Index(o.Mx, x) ** o.cont
         IN  IF IsErr(D_x) THEN R(D_x, <<>>)
             ELSE Ret((M_x // D_x) // (One ++ o.g), <<>>, <<>>, "Ax_")

\* term life insurance, paid at the end of the year of death
nAx(o, x, n) ==
    IF x \prec Zero THEN R(NaN, <<>>)
    ELSE IF n \prec Zero THEN R(NaN, <<>>)
    ELSE IF (x ++ n) \succ QI(o.w) THEN Ax(o, x)
    ELSE LET D_x == Index(o.Dx, x)
             M_x == IF o.app_cont THEN Index(o.Mx, x) // o.cont
                    ELSE Index(o.Mx, x)
             M_x_n == IF o.app_cont THEN Index(o.Mx, x ++ n) // o.cont
                      ELSE Index(o.Mx, x ++ n)
         IN  IF IsErr(D_x) THEN R(D_x, <<>>)
             ELSE Ret(((M_x -- M_x_n) // D_x) // (One ++ o.g), <<>>, <<>>, "nAx")

\* term life insurance, paid at the moment of death
nAx_(o, x, n) ==
    IF x \prec Zero THEN R(NaN, <<>>)
    ELSE IF n \prec Zero THEN R(NaN, <<>>)
    ELSE IF (x ++ n) \succ QI(o.w)
    THEN Bind(Ax(o, x), LAMBDA a : R(a.v ** o.cont, a.log))
    ELSE LET D_x == Index(o.Dx, x)
             M_x == IF o.app_cont THEN Index(o.Mx, x)
                    ELSE Index(o.Mx, x) ** o.cont
             M_x_n == IF o.app_cont THEN Index(o.Mx, x ++ n)
                      ELSE Index(o.Mx, x ++ n) ** o.cont
         IN  IF IsErr(D_x) THEN R(D_x, <<>>)
             ELSE Ret(((M_x -- M_x_n) // D_x) // (One ++ o.g), <<>>, <<>>, "nAx_")

\* increasing whole life insurance, paid at the end of the year of death
IAx(o, x) ==
    IF x \prec Zero THEN R(NaN, <<>>)
    ELSE IF x \succ QI(o.w) THEN R(o.v, <<>>)
    ELSE LET D_x == Index(o.Dx, x)
             R_x == IF o.app_cont THEN Index(o.Rx, x) // o.cont
                    ELSE Index(o.Rx, x)
         IN  IF IsErr(D_x) THEN R(D_x, <<>>)
             ELSE Ret(R_x // D_x, <<>>, <<>>, "IAx")

\* increasing whole life insurance, paid at the moment of death
IAx_(o, x) ==
    IF x \prec Zero THEN R(NaN, <<>>)
    ELSE IF x \succ QI(o.w) THEN R(fPow(o.v, Half), <<>>)
    ELSE LET D_x == Index(o.Dx, x)
             R_x == IF o.app_cont THEN Index(o.Rx, x)
                    ELSE Index(o.Rx, x) ** o.cont
         IN  IF IsErr(D_x) THEN R(D_x, <<>>)
             ELSE Ret(R_x // D_x, <<>>, <<>>, "IAx_")

\* increasing term life insurance, paid at the end of the year of death
nIAx(o, x, n) ==
    IF x \prec Zero THEN R(NaN, <<>>)
    ELSE IF n \prec Zero THEN R(NaN, <<>>)
    ELSE IF x \succ QI(o.w) THEN R(o.v, <<>>)
    ELSE LET D_x == Index(o.Dx, x)
             M_x_n == IF o.app_cont THEN Index(o.Mx, x ++ n) // o.cont
                      ELSE Index(o.Mx, x ++ n)
             R_x == IF o.app_cont THEN Index(o.Rx, x) // o.cont
                    ELSE Index(o.Rx, x)
             R_x_n == IF o.app_cont THEN Index(o.Rx, x ++ n) // o.cont
                      ELSE Index(o.Rx, x ++ n)
         IN  IF IsErr(D_x) THEN R(D_x, <<>>)
             ELSE IF IsErr(M_x_n) THEN R(M_x_n, <<>>)
             ELSE Ret(((R_x -- R_x_n) -- (n ** M_x_n)) // D_x, <<>>, <<>>, "nIAx")

\* increasing term life insurance, paid at the moment of death
nIAx_(o, x, n) ==
    IF x \prec Zero THEN R(NaN, <<>>)
    ELSE IF n \prec Zero THEN R(NaN, <<>>)
    ELSE IF x \succ QI(o.w) THEN R(fPow(o.v, Half), <<>>)
    ELSE LET D_x == Index(o.Dx, x)
             M_x_n == IF o.app_cont THEN Index(o.Mx, x ++ n)
                      ELSE Index(o.Mx, x ++ n) ** o.cont
             R_x == IF o.app_cont THEN Index(o.Rx, x)
                    ELSE Index(o.Rx, x) ** o.cont
             R_x_n == IF o.app_cont THEN Index(o.Rx, x ++ n)
                      ELSE Index(o.Rx, x ++ n) ** o.cont
         IN  IF IsErr(D_x) THEN R(D_x, <<>>)
             ELSE IF IsErr(M_x_n) THEN R(M_x_n, <<>>)
             ELSE Ret(((R_x -- R_x_n) -- (n ** M_x_n)) // D_x, <<>>, <<>>, "nIAx_")

\* deferred whole life insurance, paid at the end of the year of death
t_Ax(o, x, defer) ==
    Bind2(nEx(o, x, defer), Ax(o, x ++ defer), LAMBDA e, a :
        IF IsErr(e.v) THEN e
        ELSE IF IsErr(a.v) THEN R(a.v, e.log \o a.log)
        ELSE R(e.v ** a.v, Append(e.log \o a.log, "t_Ax")))

\* deferred term life insurance, paid at the end of the year of death
t_nAx(o, x, n, defer) ==
    Bind2(nEx(o, x, defer), nAx(o, x ++ defer, n), LAMBDA e, a :
        IF IsErr(e.v) THEN e
        ELSE IF IsErr(a.v) THEN R(a.v, e.log \o a.log)
        ELSE R(e.v ** a.v, Append(e.log \o a.log, "t_nAx")))

\* deferred term life insurance, paid at the moment of death
t_nAx_(o, x, n, defer) ==
    Bind2(nEx(o, x, defer), nAx_(o, x ++ defer, n), LAMBDA e, a :
        IF IsErr(e.v) THEN e
        ELSE IF IsErr(a.v) THEN R(a.v, e.log \o a.log)
        ELSE R(e.v ** a.v, Append(e.log \o a.log, "t_nAx_")))

\* sum([increase_amount * t_nAx(x + defer, n - j, defer + j)
\*      for j in range(j, n)]) with the entries the calls log; at_death
\* selects t_nAx_
RECURSIVE insurance_increases(_, _, _, _, _, _, _)
insurance_increases(o, x, n, defer, increase_amount, at_death, j) ==
    IF j >= n THEN R(Zero, <<>>)
    ELSE Bind2(IF at_death
               THEN t_nAx_(o, x ++ defer, QI(n - j), defer ++ QI(j))
               ELSE t_nAx(o, x ++ defer, QI(n - j), defer ++ QI(j)),
               insurance_increases(o, x, n, defer, increase_amount, at_death,
                                   j + 1),
               LAMBDA t, rest :
             IF IsErr(t.v) THEN t
             ELSE IF IsErr(rest.v) THEN R(rest.v, t.log \o rest.log)
             ELSE R((increase_amount ** t.v) ++ rest.v, t.log \o rest.log))

\* increasing/decreasing term insurance, paid at the end of the year of
\* death; n is an integer
nIArx(o, x, n, defer, first_amount, increase_amount) ==
    IF (first_amount ++ ((n -- One) ** increase_amount)) \prec Zero
    THEN R(NaN, <<>>)
    ELSE Bind2(t_nAx(o, x, n, defer),
               insurance_increases(o, x, IntOf(n), defer, increase_amount,
                                   FALSE, 1),
               LAMBDA t, incs :
             IF IsErr(t.v) THEN t
             ELSE IF IsErr(incs.v) THEN R(incs.v, t.log \o incs.log)
             ELSE R((first_amount ** t.v) ++ incs.v, t.log \o incs.log))

\* increasing/decreasing term insurance, paid at the moment of death; n is an
\* integer
nIArx_(o, x, n, defer, first_amount, increase_amount) ==
    IF (first_amount ++ ((n -- One) ** increase_amount)) \prec Zero
    THEN R(NaN, <<>>)
    ELSE Bind2(t_nAx_(o, x, n, defer),
               insurance_increases(o, x, IntOf(n), defer, increase_amount,
                                   TRUE, 1),
               LAMBDA t, incs :
             IF IsErr(t.v) THEN t
             ELSE IF IsErr(incs.v) THEN R(incs.v, t.log \o incs.log)
             ELSE R((first_amount ** t.v) ++ incs.v, t.log \o incs.log))

-----------------------------------------------------------------------------
(* The direct-summation annuity (annuities.py) *)

\* int(a): truncation towards zero
Trunc(x) ==
    Bind(x, LAMBDA a : IF a.n >= 0 THEN a.n \div a.d ELSE -((-a.n) \div a.d))

\* numpy.linspace(start, stop, num) for num >= 0
linspace(first, final, num) ==
    Bind2(first, final, LAMBDA start, stop :
        [k \in 1..num |->
            IF num = 1 THEN start
            ELSE start ++ ((QI(k - 1) ** (stop -- start)) // QI(num - 1))])

\* the generic annuity on one head: payments from age x_first to age x_last,
\* m per year, valued at age x on the table mt
annuity_x(mt, x, x_first, x_last, i, g, m, method) ==
    IF x_first \prec x THEN R(NaN, <<>>)
    ELSE IF x_last \prec x_first /\ x_first = x THEN R(NaN, <<>>)
    ELSE IF QI(Trunc(m)) # m THEN R(NaN, <<>>)
    ELSE IF x = x_first /\ x_first = x_last THEN R(One, <<>>)
    ELSE Bind2(pDiv(i, QI(100)), pDiv(g, QI(100)), LAMBDA i_, g_ :
         Bind2(pDiv(One ++ g_, One ++ i_),
               Trunc(((x_last -- x_first) ** m) ++ One),
               LAMBDA d_, number_of_payments :
         Bind(linspace(x_first -- x, x_last -- x, number_of_payments),
              LAMBDA payments_instants :
         Bind([k \in 1..number_of_payments |->
                  npx(mt, x, payments_instants[k], method)], LAMBDA survival :
         Bind([k \in 1..number_of_payments |->
                  ((survival[k].v ** fPow(d_, payments_instants[k]))
                   // fPow(One ++ g_, x_first -- x)) // m],
              LAMBDA instalments :
             IF IsErr(d_) THEN R(d_, <<>>)
             ELSE IF number_of_payments < 0 THEN R(Raise("ValueError"), <<>>)
             ELSE R(PySum(instalments, number_of_payments),
                    Logs(survival, 1)))))))

\* whole life annuity immediate, by direct summation
annuities_ax(mt, x, i, g, m, method) ==
    Bind(pDiv(One, m), LAMBDA step :
        IF IsErr(step) THEN R(step, <<>>)
        ELSE IF (x ++ step) \succ QI(mt.w) THEN R(Zero, <<>>)
        ELSE annuity_x(mt, x, x ++ step, QI(mt.w), i, g, m, method))

\* n-year temporary annuity immediate, by direct summation
annuities_nax(mt, x, n, i, g, m, method) ==
    Bind(pDiv(One, m), LAMBDA step :
        IF IsErr(step) THEN R(step, <<>>)
        ELSE IF (x ++ step) \succ QI(mt.w) THEN R(Zero, <<>>)
        ELSE annuity_x(mt, x, x ++ step, x ++ n, i, g, m, method))

\* whole life annuity due, by direct summation
annuities_aax(mt, x, i, g, m, method) ==
    IF x \succ QI(mt.w) THEN R(One, <<>>)
    ELSE annuity_x(mt, x, x, QI(mt.w), i, g, m, method)

\* n-year temporary annuity due, by direct summation
annuities_naax(mt, x, n, i, g, m, method) ==
    IF x \succ QI(mt.w) THEN R(One, <<>>)
    ELSE Bind(pDiv(One, m), LAMBDA step :
             IF IsErr(step) THEN R(step, <<>>)
             ELSE annuity_x(mt, x, x, (x ++ n) -- step, i, g, m, method))

-----------------------------------------------------------------------------
(* CommutationFunctionsFrac (commutation_table_frac.py) *)

\* numpy.round(x, 5): to the nearest multiple of 1e-5, a tie to the even one
Round5(x) ==
    Bind(x ** QI(100000), LAMBDA y :
        IF ~IsNum(y) THEN y
        ELSE Bind2(Floor(y), y -- QI(Floor(y)), LAMBDA f, rem :
                 Q(IF rem \prec Half THEN f
                   ELSE IF rem \succ Half THEN f + 1
                   ELSE IF f % 2 = 0 THEN f ELSE f + 1, 100000)))

\* the construction with the deaths of a period discounted to its start, not
\* to its end
CommutationFunctionsFrac_deaths_at_start(i, g, data_type, mt, perc, frac, method) ==
    Bind(CommutationFunctions(i, g, data_type, mt, perc, FALSE), LAMBDA b :
    Bind2(linspace(Zero, QI(b.w + 1), (b.w + 1) * frac + 1),
          pDiv(One, QI(frac)), LAMBDA ages, step :
    Bind2([k \in 1..Len(ages) |-> npx(b, Zero, ages[k], method)],
          [k \in 1..Len(ages) |-> npx(b, ages[k], step, method)],
          LAMBDA survival, px_calls :
    Bind2([k \in 1..Len(ages) |-> survival[k].v ** QI(radical)],
          [k \in 1..Len(ages) |-> px_calls[k].v], LAMBDA lx_frac, px_frac :
    Bind([k \in 1..Len(ages) |->
             IF k < Len(ages) THEN lx_frac[k] -- lx_frac[k + 1] ELSE Zero],
         LAMBDA dx_frac :
    Bind2([k \in 1..Len(ages) |-> lx_frac[k] ** fPow(b.d, ages[k])],
          [k \in 1..Len(ages) |-> dx_frac[k] ** fPow(b.d, ages[k])],
          LAMBDA Dx_frac, Cx_frac :
    Bind2(TailSums(Dx_frac), TailSums(Cx_frac), LAMBDA Nx_frac, Mx_frac :
    Bind2(TailSums(Nx_frac), TailSums(Mx_frac), LAMBDA Sx_frac, Rx_frac :
        R([method |-> method, frac |-> frac, ages |-> ages,
           lx_frac |-> lx_frac, px_frac |-> px_frac,
           qx_frac |-> [k \in 1..Len(ages) |-> One -- px_frac[k]],
           dx_frac |-> dx_frac,
           Dx_frac |-> Dx_frac, Nx_frac |-> Nx_frac, Sx_frac |-> Sx_frac,
           Cx_frac |-> Cx_frac, Mx_frac |-> Mx_frac, Rx_frac |-> Rx_frac]
          @@ b,
          Logs(survival, 1) \o Logs(px_calls, 1))))))))))

\* the instance CommutationFunctionsFrac.__init__ builds, for a known method
\* and a positive integer frac, and the entries its npx calls log
CommutationFunctionsFrac(i, g, data_type, mt, perc, frac, method) ==
    Bind(CommutationFunctions(i, g, data_type, mt, perc, FALSE), LAMBDA b :
    Bind2(linspace(Zero, QI(b.w + 1), (b.w + 1) * frac + 1),
          pDiv(One, QI(frac)), LAMBDA ages, step :
    Bind2([k \in 1..Len(ages) |-> npx(b, Zero, ages[k], method)],
          [k \in 1..Len(ages) |-> npx(b, ages[k], step, method)],
          LAMBDA survival, px_calls :
    Bind2([k \in 1..Len(ages) |-> survival[k].v ** QI(radical)],
          [k \in 1..Len(ages) |-> px_calls[k].v], LAMBDA lx_frac, px_frac :
    Bind([k \in 1..Len(ages) |->
             IF k < Len(ages) THEN lx_frac[k] -- lx_frac[k + 1] ELSE Zero],
         LAMBDA dx_frac :
    Bind2([k \in 1..Len(ages) |-> lx_frac[k] ** fPow(b.d, ages[k])],
          [k \in 1..Len(ages) |-> dx_frac[k] ** fPow(b.d, ages[k] ++ step)],
          LAMBDA Dx_frac, Cx_frac :
    Bind2(TailSums(Dx_frac), TailSums(Cx_frac), LAMBDA Nx_frac, Mx_frac :
    Bind2(TailSums(Nx_frac), TailSums(Mx_frac), LAMBDA Sx_frac, Rx_frac :
        R([method |-> method, frac |-> frac, ages |-> ages,
           lx_frac |-> lx_frac, px_frac |-> px_frac,
           qx_frac |-> [k \in 1..Len(ages) |-> One -- px_frac[k]],
           dx_frac |-> dx_frac,
           Dx_frac |-> Dx_frac, Nx_frac |-> Nx_frac, Sx_frac |-> Sx_frac,
           Cx_frac |-> Cx_frac, Mx_frac |-> Mx_frac, Rx_frac |-> Rx_frac]
          @@ b,
          Logs(survival, 1) \o Logs(px_calls, 1))))))))))

\* CommutationFunctionsFrac.__init__ on a new instance: after the base class
\* is built it returns, setting no attribute of its own, when method is unknown
\* or frac is not a positive int; frac is given as <<type, value>>
CommutationFunctionsFrac__init__(i, g, data_type, mt, perc, frac, method) ==
    IF method \notin methods \/ frac[2] <= 0 \/ frac[1] # "int"
    THEN R(CommutationFunctions(i, g, data_type, mt, perc, FALSE), <<>>)
    ELSE CommutationFunctionsFrac(i, g, data_type, mt, perc, frac[2], method)

\* the grid index of the age age_int + age_frac
age_to_index(o, age_int, age_frac) ==
    Bind(Round5(age_frac ** QI(o.frac)), LAMBDA parts :
        IF ~IsNum(parts) \/ ~IsNum(age_int) THEN R(Raise("ValueError"), <<>>)
        ELSE IF QI(Trunc(parts)) = parts /\ age_int = QI(Trunc(age_int))
        THEN R(QI(Trunc((age_int ++ age_frac) ** QI(o.frac))), <<>>)
        ELSE R(NaN, <<>>))

-----------------------------------------------------------------------------
(* The inputs of the model *)

\* raw vectors mt = [x0, values...]; every px is 0, 1/4 or 1
MtQ == <<Zero, Q(3, 4), Q(3, 4)>>
MtQHalf == <<Zero, Q(3, 8), Q(3, 8)>>
MtL == <<Zero, QI(100), QI(25)>>
MtP == <<One, Q(1, 4)>>
\* a raw qx vector that ends with certain death, to be scaled by perc = 200
MtQOne == <<Zero, Q(3, 8), One>>

\* the table of five ages with qx = 0.01 each, and the instance priced on it
\* at i = 5
MtScenario ==
    <<Zero, Q(1, 100), Q(1, 100), Q(1, 100), Q(1, 100), Q(1, 100)>>
Scenario == <<5, 0, "q", MtScenario, 100, FALSE>>

\* a table of four ages, w = 3, and the instance priced on it at i = 300 %
MtQLong == <<Zero, Half, Q(1, 4), Q(3, 4)>>
LongPricing == <<300, 0, "q", MtQLong, 100, FALSE>>

\* (data_type, mt, perc) of the tables
Tables ==
    { <<"q", MtQ, 100>>, <<"q", MtQHalf, 200>>, <<"l", MtL, 100>>,
      <<"p", MtP, 100>>, <<"q", MtQOne, 200>> }

\* (i, g, data_type, mt, perc, app_cont) of the CommutationFunctions instances
Pricings ==
    { <<0, 0, "q", MtQ, 100, FALSE>>, <<300, 0, "q", MtQ, 100, FALSE>>,
      <<300, 0, "q", MtQ, 100, TRUE>>, <<300, 300, "q", MtQHalf, 200, FALSE>>,
      <<300, 0, "l", MtL, 100, TRUE>>, <<0, 300, "p", MtP, 100, FALSE>> }

Ages(o) == {QI(a) : a \in (0 - AgeBelow)..(o.w + AgeBeyond)}
HalfAges(o) == {Q(a, 2) : a \in (0 - 1)..(2 * (o.w + AgeBeyond))}
Terms == {QI(t) : t \in (0 - 1)..MaxTerm} \cup {Q(3, 2)}
HalfTerms == {Q(t, 2) : t \in (0 - 1)..(2 * MaxTerm)}
WholeTerms == {QI(t) : t \in 1..MaxTerm}
Freqs == {QI(0 - 1), Zero, One, Two, Q(3, 2)}
Defers == {QI(t) : t \in 0..MaxDefer}
Amounts == {QI(0 - 1), One, Two}
Increases == {QI(0 - 1), One}
Rates == {Zero, QI(300)}

\* (i, g, data_type, mt, perc, frac, method) of the CommutationFunctionsFrac
\* instances
Fracs == {1, 2}
FracPricings ==
    {<<p[1], p[2], p[3], p[4], p[5], f, m>> :
        p \in Pricings, f \in Fracs, m \in methods}
FracParts == {Zero, Half, Q(1, 3), Q(1, 1000000)}

\* (data_type, mt, perc) given to MortalityTable.__init__: the tables, and
\* each with an unknown tag or without its vector
TableArgs ==
    {<<tag, t[2], t[3]>> : tag \in {"x", ""}, t \in Tables}
    \cup {<<t[1], <<>>, t[3]>> : t \in Tables} \cup Tables

\* frac given to CommutationFunctionsFrac.__init__, as <<type, value>>
FracArgs ==
    {<<"int", 0 - 1>>, <<"int", 0>>, <<"int", 1>>, <<"int", 2>>,
     <<"float", 2>>}

\* ages and periods that do not depend on the table
FixedAges == {QI(0 - 1), Zero, Half, One, QI(5)}
FixedTerms == {Zero, Half, One}

\* the vectors of length 0..2 over a set of values
Vectors(S) == {<<>>} \cup {<<a>> : a \in S} \cup {<<a, b>> : a \in S, b \in S}

-----------------------------------------------------------------------------
(* MortalityTable: the life expectancy over a period (mortality_table.py) *)

\* numpy.round(x, 6): to the nearest multiple of 1e-6, a tie to the even one
Round6(x) ==
    Bind(x ** QI(1000000), LAMBDA y :
        IF ~IsNum(y) THEN y
        ELSE Bind2(Floor(y), y -- QI(Floor(y)), LAMBDA f, rem :
                 Q(IF rem \prec Half THEN f
                   ELSE IF rem \succ Half THEN f + 1
                   ELSE IF f % 2 = 0 THEN f ELSE f + 1, 1000000)))

\* numpy.log: exact at 1, -inf at 0, nan below 0
fLog(x) ==
    Bind(x, LAMBDA a :
        IF a.k = "inf" THEN Inf
        ELSE IF a.k = "ninf" THEN NaN
        ELSE IF ~IsNum(a) THEN a
        ELSE IF a.n < 0 THEN NaN
        ELSE IF a.n = 0 THEN NegInf
        ELSE IF a = One THEN Zero
        ELSE Inexact)

\* the integral of tpx over one year from the integer age x
get_integral_px_method(o, x, method) ==
    IF method \notin methods THEN NaN
    ELSE IF x \prec Zero THEN NaN
    ELSE IF x \succ QI(o.w + 1) THEN Zero
    ELSE IF QI(Trunc(x)) # x THEN NaN
    ELSE Bind2(Index(o.px, x), Index(o.qx, x), LAMBDA p, q :
        IF method = "udd" THEN One -- (Half ** q)
        ELSE IF method = "cfm"
             THEN (IF p = Zero THEN Zero ELSE fNeg(q) // fLog(p))
        ELSE (IF p = Zero THEN Zero ELSE (fNeg(p) // q) ** fLog(p)))

\* the complete years of exn from year t on:
\* sum(npx(x, to_complete_age + t) * get_integral_px_method(next_age + t))
RECURSIVE exn_integrals(_, _, _, _, _, _, _)
exn_integrals(o, x, to_complete_age, next_age, method, t, complete_years) ==
    IF t >= complete_years THEN R(Zero, <<>>)
    ELSE Bind2(npx(o, x, to_complete_age ++ QI(t), method),
               get_integral_px_method(o, next_age ++ QI(t), method),
               LAMBDA p, integral :
         IF IsErr(integral) THEN R(integral, p.log)
         ELSE Bind(exn_integrals(o, x, to_complete_age, next_age, method,
                                 t + 1, complete_years), LAMBDA rest :
                  IF IsErr(rest.v) THEN R(rest.v, p.log \o rest.log)
                  ELSE R((p.v ** integral) ++ rest.v, p.log \o rest.log)))

\* the approximate life expectancy of a life aged x over the next n years
exn(o, x, n, method) ==
    IF method \notin methods THEN R(NaN, <<>>)
    ELSE IF x \prec Zero THEN R(NaN, <<>>)
    ELSE IF n \preceq Zero THEN R(One, <<>>)
    ELSE
    Bind2(IF (x ++ n) \succ QI(o.w) THEN (QI(o.w) -- x) ++ One ELSE n,
          IF x = QI(Trunc(x)) THEN x ELSE QI(Trunc(x) + 1),
          LAMBDA n_max, next_age :
    Bind(Round6(next_age -- x), LAMBDA to_complete_age :
        IF to_complete_age \succeq n_max
        THEN Bind(npx(o, x, n_max // Two, method), LAMBDA p :
                 R(n_max ** p.v, p.log))
        ELSE
        Bind2(IF to_complete_age \succ Zero
              THEN Bind(npx(o, x, to_complete_age // Two, method), LAMBDA p :
                       R(to_complete_age ** p.v, p.log))
              ELSE R(Zero, <<>>),
              Trunc(n_max -- to_complete_age),
              LAMBDA integral1, complete_years :
        Bind2(exn_integrals(o, x, to_complete_age, next_age, method, 0,
                            complete_years),
              Round6((n_max -- to_complete_age) -- QI(complete_years)),
              LAMBDA integrals, final_period :
            IF IsErr(integrals.v)
            THEN R(integrals.v, integral1.log \o integrals.log)
            ELSE
            Bind(IF final_period \succ Zero
                 THEN Bind2(npx(o, x, QI(complete_years), method),
                            npx(o, next_age ++ QI(Trunc(n -- to_complete_age)),
                                final_period, method),
                            LAMBDA p1, p2 :
                          R((p1.v ** final_period) ** p2.v, p1.log \o p2.log))
                 ELSE R(Zero, <<>>), LAMBDA integral2 :
                R((integral1.v ++ integrals.v) ++ integral2.v,
                  (integral1.log \o integrals.log) \o integral2.log))))))

-----------------------------------------------------------------------------
(* The state machine: calls made on one instance *)

\* no call in progress; also the shape of a call record
NoCall ==
    [op |-> "none", x |-> Zero, n |-> Zero, m |-> Zero, defer |-> Zero,
     first_amount |-> Zero, increase_amount |-> Zero, method |-> "udd",
     x_first |-> Zero, x_last |-> Zero, i |-> Zero, g |-> Zero,
     probs |-> ProbsNone, age |-> PyNone, spot_rates |-> <<>>,
     capital |-> <<>>, age_int |-> Zero, age_frac |-> Zero,
     data_type |-> "", mt |-> <<>>, frac |-> <<"int", 0>>, ret |-> Zero]

\* the number of entries the construction of the instance has logged: two
\* npx calls per grid age but the first, on a CommutationFunctionsFrac
Built == IF "ages" \in DOMAIN obj THEN 2 * (Len(obj.ages) - 1) ELSE 0

\* a call that replaces the log by its own entries
Invoke_overwrites_log(call, r) ==
    /\ last = NoCall
    /\ Len(msn) < Built + MaxLog
    /\ last' = [call EXCEPT !.ret = r.v]
    /\ msn' = r.log
    /\ UNCHANGED obj

\* the call is made on the instance: its log entries are appended to msn and
\* its result (a value or the exception raised) is recorded
Invoke(call, r) ==
    /\ last = NoCall
    /\ Len(msn) < Built + MaxLog
    /\ last' = [call EXCEPT !.ret = r.v]
    /\ msn' = msn \o r.log
    /\ UNCHANGED obj

\* the caller takes the result
Return ==
    /\ last # NoCall
    /\ last' = NoCall
    /\ UNCHANGED <<obj, msn>>

Call_force_qw_0 ==
    /\ last = NoCall
    /\ obj' = force_qw_0(obj)
    /\ UNCHANGED <<msn, last>>

Call_nEx ==
    \E x \in Ages(obj), n \in Terms :
        Invoke([NoCall EXCEPT !.op = "nEx", !.x = x, !.n = n], nEx(obj, x, n))

Call_ax ==
    \E x \in Ages(obj), m \in Freqs :
        Invoke([NoCall EXCEPT !.op = "ax", !.x = x, !.m = m], ax(obj, x, m))

Call_aax ==
    \E x \in Ages(obj), m \in Freqs :
        Invoke([NoCall EXCEPT !.op = "aax", !.x = x, !.m = m], aax(obj, x, m))

Call_t_ax ==
    \E x \in Ages(obj), m \in Freqs, defer \in Defers :
        Invoke([NoCall EXCEPT !.op = "t_ax", !.x = x, !.m = m, !.defer = defer],
               t_ax(obj, x, m, defer))

Call_t_aax ==
    \E x \in Ages(obj), m \in Freqs, defer \in Defers :
        Invoke([NoCall EXCEPT !.op = "t_aax", !.x = x, !.m = m, !.defer = defer],
               t_aax(obj, x, m, defer))

Call_nax ==
    \E x \in Ages(obj), n \in Terms, m \in Freqs :
        Invoke([NoCall EXCEPT !.op = "nax", !.x = x, !.n = n, !.m = m],
               nax(obj, x, n, m))

Call_naax ==
    \E x \in Ages(obj), n \in Terms, m \in Freqs :
        Invoke([NoCall EXCEPT !.op = "naax", !.x = x, !.n = n, !.m = m],
               naax(obj, x, n, m))

Call_t_nax ==
    \E x \in Ages(obj), n \in Terms, m \in Freqs, defer \in Defers :
        Invoke([NoCall EXCEPT !.op = "t_nax", !.x = x, !.n = n, !.m = m,
                              !.defer = defer],
               t_nax(obj, x, n, m, defer))

Call_t_naax ==
    \E x \in Ages(obj), n \in Terms, m \in Freqs, defer \in Defers :
        Invoke([NoCall EXCEPT !.op = "t_naax", !.x = x, !.n = n, !.m = m,
                              !.defer = defer],
               t_naax(obj, x, n, m, defer))

Call_t_nIax ==
    \E x \in Ages(obj), n \in WholeTerms, m \in {One, Two}, defer \in Defers,
       first_amount \in Amounts, increase_amount \in Increases :
        Invoke([NoCall EXCEPT !.op = "t_nIax", !.x = x, !.n = n, !.m = m,
                              !.defer = defer, !.first_amount = first_amount,
                              !.increase_amount = increase_amount],
               t_nIax(obj, x, n, m, defer, first_amount, increase_amount))

Call_t_nIaax ==
    \E x \in Ages(obj), n \in WholeTerms, m \in {One, Two}, defer \in Defers,
       first_amount \in Amounts, increase_amount \in Increases :
        Invoke([NoCall EXCEPT !.op = "t_nIaax", !.x = x, !.n = n, !.m = m,
                              !.defer = defer, !.first_amount = first_amount,
                              !.increase_amount = increase_amount],
               t_nIaax(obj, x, n, m, defer, first_amount, increase_amount))

Call_present_value ==
    \E probs \in {ProbsNone, ProbsScalar(Half)}
                 \cup {ProbsVector(ps) : ps \in Vectors({Half})},
       age \in {PyNone, Zero, One},
       spot_rates \in Vectors({Zero, QI(100)}),
       capital \in Vectors({One, Two}) :
        Invoke([NoCall EXCEPT !.op = "present_value", !.probs = probs,
                              !.age = age, !.spot_rates = spot_rates,
                              !.capital = capital],
               present_value(obj, probs, age, spot_rates, capital))

Call_Ax ==
    \E x \in Ages(obj) :
        Invoke([NoCall EXCEPT !.op = "Ax", !.x = x], Ax(obj, x))

Call_Ax_ ==
    \E x \in Ages(obj) :
        Invoke([NoCall EXCEPT !.op = "Ax_", !.x = x], Ax_(obj, x))

Call_nAx ==
    \E x \in Ages(obj), n \in Terms :
        Invoke([NoCall EXCEPT !.op = "nAx", !.x = x, !.n = n], nAx(obj, x, n))

Call_nAx_ ==
    \E x \in Ages(obj), n \in Terms :
        Invoke([NoCall EXCEPT !.op = "nAx_", !.x = x, !.n = n], nAx_(obj, x, n))

Call_IAx ==
    \E x \in Ages(obj) :
        Invoke([NoCall EXCEPT !.op = "IAx", !.x = x], IAx(obj, x))

Call_IAx_ ==
    \E x \in Ages(obj) :
        Invoke([NoCall EXCEPT !.op = "IAx_", !.x = x], IAx_(obj, x))

Call_nIAx ==
    \E x \in Ages(obj), n \in Terms :
        Invoke([NoCall EXCEPT !.op = "nIAx", !.x = x, !.n = n], nIAx(obj, x, n))

Call_nIAx_ ==
    \E x \in Ages(obj), n \in Terms :
        Invoke([NoCall EXCEPT !.op = "nIAx_", !.x = x, !.n = n],
               nIAx_(obj, x, n))

\* npx and nqx, inherited from MortalityTable
Call_npx ==
    \E x \in HalfAges(obj), n \in HalfTerms, method \in methods \cup {"other"} :
        Invoke([NoCall EXCEPT !.op = "npx", !.x = x, !.n = n,
                              !.method = method],
               npx(obj, x, n, method))

Call_nqx ==
    \E x \in HalfAges(obj), n \in HalfTerms, method \in methods \cup {"other"} :
        Invoke([NoCall EXCEPT !.op = "nqx", !.x = x, !.n = n,
                              !.method = method],
               nqx(obj, x, n, method))

Call_exn ==
    \E x \in HalfAges(obj), n \in HalfTerms, method \in methods \cup {"other"} :
        Invoke([NoCall EXCEPT !.op = "exn", !.x = x, !.n = n,
                              !.method = method],
               exn(obj, x, n, method))

Call_get_lx_method ==
    \E x \in HalfAges(obj), method \in methods \cup {"other"} :
        Invoke([NoCall EXCEPT !.op = "get_lx_method", !.x = x,
                              !.method = method],
               R(get_lx_method(obj, x, method), <<>>))

\* annuity_x(mt, ...) called with the instance as its table
Call_annuity_x ==
    \E x \in {Zero, One}, x_first \in {Zero, One, Two},
       x_last \in {Zero, One, Two}, i \in Rates, g \in Rates,
       m \in {One, Two, Q(3, 2)}, method \in methods :
        Invoke([NoCall EXCEPT !.op = "annuity_x", !.x = x,
                              !.x_first = x_first, !.x_last = x_last,
                              !.i = i, !.g = g, !.m = m, !.method = method],
               annuity_x(obj, x, x_first, x_last, i, g, m, method))

\* a CommutationFunctions instance and the calls on it
Init ==
    /\ obj \in {CommutationFunctions(p[1], p[2], p[3], p[4], p[5], p[6]) :
                   p \in Pricings}
    /\ msn = <<>>
    /\ last = NoCall

Next ==
    \/ Call_nEx
    \/ Call_ax
    \/ Call_aax
    \/ Call_t_ax
    \/ Call_t_aax
    \/ Call_nax
    \/ Call_naax
    \/ Call_t_nax
    \/ Call_t_naax
    \/ Call_t_nIax
    \/ Call_t_nIaax
    \/ Call_present_value
    \/ Call_Ax
    \/ Call_Ax_
    \/ Call_nAx
    \/ Call_nAx_
    \/ Call_IAx
    \/ Call_IAx_
    \/ Call_nIAx
    \/ Call_nIAx_
    \/ Call_force_qw_0
    \/ Return

Spec == Init /\ [][Next]_vars

\* a CommutationFunctions instance, the one of the scenario included, and the
\* pure endowments taken on it
InitScenario ==
    /\ obj \in {CommutationFunctions(p[1], p[2], p[3], p[4], p[5], p[6]) :
                   p \in Pricings \cup {Scenario}}
    /\ msn = <<>>
    /\ last = NoCall

NextScenario ==
    \/ Call_nEx
    \/ Call_force_qw_0
    \/ Return

SpecScenario == InitScenario /\ [][NextScenario]_vars

Call_age_to_index ==
    \E age_int \in Ages(obj) \cup {Half}, age_frac \in FracParts :
        Invoke([NoCall EXCEPT !.op = "age_to_index", !.age_int = age_int,
                              !.age_frac = age_frac],
               age_to_index(obj, age_int, age_frac))

\* the setter of frac: instance.frac = f
Set_frac ==
    /\ last = NoCall
    /\ \E f \in Fracs \cup {3} : obj' = [obj EXCEPT !.frac = f]
    /\ UNCHANGED <<msn, last>>

\* the setter of method: instance.method = m
Set_method ==
    /\ last = NoCall
    /\ \E m \in methods : obj' = [obj EXCEPT !.method = m]
    /\ UNCHANGED <<msn, last>>

\* a CommutationFunctionsFrac instance, its queries and its setters
InitFrac ==
    /\ \E p \in FracPricings :
          \E c \in {CommutationFunctionsFrac(p[1], p[2], p[3], p[4], p[5],
                                             p[6], p[7])} :
              obj = c.v /\ msn = c.log
    /\ last = NoCall

NextFrac ==
    \/ Call_age_to_index
    \/ Call_nEx
    \/ Set_frac
    \/ Set_method
    \/ Return

SpecFrac == InitFrac /\ [][NextFrac]_vars

\* a CommutationFunctionsFrac instance, whose construction has logged, under
\* queries and valuations of every family and force_qw_0
NextFrame ==
    \/ Call_get_lx_method
    \/ Call_npx
    \/ Call_nEx
    \/ Call_t_ax
    \/ Call_nAx
    \/ Call_present_value
    \/ Call_age_to_index
    \/ Call_force_qw_0
    \/ Return

SpecFrame == InitFrac /\ [][NextFrame]_vars

Call_nIArx ==
    \E x \in Ages(obj), n \in WholeTerms, defer \in Defers,
       first_amount \in Amounts, increase_amount \in Increases :
        Invoke([NoCall EXCEPT !.op = "nIArx", !.x = x, !.n = n,
                              !.defer = defer, !.first_amount = first_amount,
                              !.increase_amount = increase_amount],
               nIArx(obj, x, n, defer, first_amount, increase_amount))

Call_nIArx_ ==
    \E x \in Ages(obj), n \in WholeTerms, defer \in Defers,
       first_amount \in Amounts, increase_amount \in Increases :
        Invoke([NoCall EXCEPT !.op = "nIArx_", !.x = x, !.n = n,
                              !.defer = defer, !.first_amount = first_amount,
                              !.increase_amount = increase_amount],
               nIArx_(obj, x, n, defer, first_amount, increase_amount))

Call_t_Ax ==
    \E x \in Ages(obj), defer \in Defers :
        Invoke([NoCall EXCEPT !.op = "t_Ax", !.x = x, !.defer = defer],
               t_Ax(obj, x, defer))

Call_t_nAx ==
    \E x \in Ages(obj), n \in Terms, defer \in Defers :
        Invoke([NoCall EXCEPT !.op = "t_nAx", !.x = x, !.n = n,
                              !.defer = defer],
               t_nAx(obj, x, n, defer))

\* a CommutationFunctions instance and the deferred operations called on it
NextDeferred ==
    \/ Call_t_ax
    \/ Call_t_aax
    \/ Call_t_nax
    \/ Call_t_naax
    \/ Call_t_Ax
    \/ Call_t_nAx
    \/ Return

SpecDeferred == Init /\ [][NextDeferred]_vars

\* a CommutationFunctions instance, the one on the table of four ages
\* included, and the increasing annuities and insurances valued on it
InitIncreasing ==
    /\ obj \in {CommutationFunctions(p[1], p[2], p[3], p[4], p[5], p[6]) :
                   p \in Pricings \cup {LongPricing}}
    /\ msn = <<>>
    /\ last = NoCall

NextIncreasing ==
    \/ Call_t_nIax
    \/ Call_t_nIaax
    \/ Call_nIArx
    \/ Call_nIArx_
    \/ Return

SpecIncreasing == InitIncreasing /\ [][NextIncreasing]_vars

\* the construction of a MortalityTable: __init__ runs on the new instance
New_MortalityTable ==
    /\ obj = Bare /\ last = NoCall /\ msn = <<>>
    /\ \E t \in TableArgs, last_q \in {0, 1} :
          /\ obj' = MortalityTable__init__(t[1], t[2], t[3], last_q)
          /\ last' = [NoCall EXCEPT !.op = "MortalityTable",
                                    !.data_type = t[1], !.mt = t[2]]
    /\ UNCHANGED msn

\* the construction of a CommutationFunctionsFrac
New_CommutationFunctionsFrac ==
    /\ obj = Bare /\ last = NoCall /\ msn = <<>>
    /\ \E p \in Pricings, frac \in FracArgs, method \in methods \cup {"other"} :
          \E c \in {CommutationFunctionsFrac__init__(p[1], p[2], p[3], p[4],
                                                     p[5], frac, method)} :
              /\ obj' = c.v
              /\ msn' = c.log
              /\ last' = [NoCall EXCEPT !.op = "CommutationFunctionsFrac",
                                        !.data_type = p[3], !.mt = p[4],
                                        !.frac = frac, !.method = method]

\* the queries of the table, on an instance that may lack the table
Query_get_lx_method ==
    \E x \in FixedAges, method \in methods :
        Invoke([NoCall EXCEPT !.op = "get_lx_method", !.x = x,
                              !.method = method],
               WithAttr(obj, "lx", R(get_lx_method(obj, x, method), <<>>)))

Query_npx ==
    \E x \in FixedAges, n \in FixedTerms, method \in methods :
        Invoke([NoCall EXCEPT !.op = "npx", !.x = x, !.n = n,
                              !.method = method],
               WithAttr(obj, "lx", npx(obj, x, n, method)))

Query_nqx ==
    \E x \in FixedAges, n \in FixedTerms, method \in methods :
        Invoke([NoCall EXCEPT !.op = "nqx", !.x = x, !.n = n,
                              !.method = method],
               WithAttr(obj, "lx", nqx(obj, x, n, method)))

\* age_to_index, on an instance that may lack the grid
Query_age_to_index ==
    \E age_int \in FixedAges, age_frac \in FracParts :
        Invoke([NoCall EXCEPT !.op = "age_to_index", !.age_int = age_int,
                              !.age_frac = age_frac],
               WithAttr(obj, "frac", age_to_index(obj, age_int, age_frac)))

\* a new instance, its construction from valid or invalid input, and the
\* queries made on what the construction left
InitNew ==
    /\ obj = Bare
    /\ msn = <<>>
    /\ last = NoCall

NextNew ==
    \/ New_MortalityTable
    \/ New_CommutationFunctionsFrac
    \/ Query_get_lx_method
    \/ Query_npx
    \/ Query_nqx
    \/ Query_age_to_index
    \/ Return

SpecNew == InitNew /\ [][NextNew]_vars

\* a MortalityTable instance, built with either terminal convention, and the
\* calls on it
InitMT ==
    /\ obj \in {MortalityTable(t[1], t[2], t[3], last_q) :
                   t \in Tables, last_q \in {0, 1}}
    /\ msn = <<>>
    /\ last = NoCall

NextMT ==
    \/ Call_get_lx_method
    \/ Call_npx
    \/ Call_nqx
    \/ Call_annuity_x
    \/ Call_force_qw_0
    \/ Return

SpecMT == InitMT /\ [][NextMT]_vars

\* a MortalityTable instance, built with either terminal convention, and the
\* life expectancies asked of it
NextExn ==
    \/ Call_exn
    \/ Call_force_qw_0
    \/ Return

SpecExn == InitMT /\ [][NextExn]_vars

-----------------------------------------------------------------------------
(* The claims.  A claim about an operation is read off the call record:     *)
(* last holds the operation, its arguments and what it returned.            *)

CommutationOps ==
    {"ax", "aax", "nax", "naax", "t_ax", "t_aax", "t_nax", "t_naax", "nEx",
     "Ax", "Ax_", "nAx", "nAx_", "IAx", "IAx_", "nIAx", "nIAx_"}
AnnuityOps ==
    {"ax", "aax", "nax", "naax", "t_ax", "t_aax", "t_nax", "t_naax"}

\* C1: every commutation-based valuation operation called with a negative
\* age x returns nan, whatever the other arguments
C1_NegativeAgeIsNaN ==
    (last.op \in CommutationOps /\ last.x \prec Zero) => IsNan(last.ret)

\* C2: for a frequency m >= 1 and an age x >= w, ax and nax return 0 and
\* aax and naax return 1
C2_BoundaryValueAtW ==
    (/\ last.op \in {"ax", "nax", "aax", "naax"}
     /\ last.m \succeq One
     /\ last.x \succeq QI(obj.w))
    => last.ret = (IF last.op \in {"ax", "nax"} THEN Zero ELSE One)

\* C3: a commutation-based valuation operation called with an integer age
\* 0 <= x <= w, an integer term and deferment >= 0 and a frequency 1 or 2,
\* such that x + n + defer >= w, returns a number and raises no error
C3_ClampNeverRaises ==
    (/\ last.op \in CommutationOps
     /\ IsInt(last.x) /\ last.x \succeq Zero /\ last.x \preceq QI(obj.w)
     /\ IsInt(last.n) /\ last.n \succeq Zero
     /\ IsInt(last.defer) /\ last.defer \succeq Zero
     /\ (last.op \in AnnuityOps => last.m \in {One, Two})
     /\ ((last.x ++ last.n) ++ last.defer) \succeq QI(obj.w))
    => IsNum(last.ret)

\* C4: an annuity operation called with a negative or non-integer frequency
\* m, or a negative or non-integer term n, returns nan
C4_BadFrequencyOrTermIsNaN ==
    (/\ last.op \in AnnuityOps
     /\ \/ last.m \prec Zero
        \/ ~IsInt(last.m)
        \/ last.n \prec Zero
        \/ ~IsInt(last.n))
    => IsNan(last.ret)

\* C5: t_nIax and t_nIaax return nan whenever some implied payment
\* first_amount + k * increase_amount, 0 <= k <= n - 1, is negative
C5_AnyNegativePaymentIsNaN ==
    (/\ last.op \in {"t_nIax", "t_nIaax"}
     /\ \E k \in 0..(IntOf(last.n) - 1) :
            (last.first_amount ++ (QI(k) ** last.increase_amount)) \prec Zero)
    => IsNan(last.ret)

\* the weight of cash flow k in the three modes of present_value
PVWeight(o, probs, age, k) ==
    IF probs.kind = "vector" THEN probs.vector[k]
    ELSE IF probs.kind = "scalar" THEN probs.scalar
    ELSE npx(o, age, QI(k), "udd").v

\* the sum over k of p_k * capital[k] * prod_{j <= k} 1 / (1 + spot_rates[j] / 100)
PVExpected(o, probs, age, spot_rates, capital) ==
    PySum([k \in 1..Len(capital) |->
              (PVWeight(o, probs, age, k) ** capital[k])
              ** discount(spot_rates, k)], Len(capital))

\* C6: with vectors of equal length present_value returns the weighted,
\* discounted sum in each of its three weighting modes and raises no error;
\* with vectors of different lengths it returns nan
C6_PresentValue ==
    last.op = "present_value" =>
        IF Len(last.spot_rates) # Len(last.capital) THEN IsNan(last.ret)
        ELSE (/\ last.probs.kind = "vector"
                    => Len(last.probs.vector) = Len(last.capital)
              /\ last.probs.kind = "None" => last.age # PyNone)
             => last.ret = PVExpected(obj, last.probs, last.age,
                                      last.spot_rates, last.capital)

\* the arguments annuity_x is to reject
C7_Rejected ==
    \/ last.x_first \prec last.x
    \/ last.x_last \prec last.x_first /\ last.x_first \succeq last.x
    \/ ~IsInt(last.m)

\* C7: annuity_x returns nan when x_first < x, when x_last precedes x_first
\* (for any x_first >= x) or when m is not an integer, and otherwise
\* exactly 1 when x = x_first = x_last
C7_AnnuityXRejects ==
    last.op = "annuity_x" =>
        /\ C7_Rejected => IsNan(last.ret)
        /\ (~C7_Rejected /\ last.x = last.x_first /\ last.x_first = last.x_last)
           => last.ret = One

\* C8: for x >= 0, every n and a known method, in every state of the table,
\* npx(x, n, method) + nqx(x, n, method) = 1
C8_SurvivalPlusDeathIsOne ==
    (last.op = "npx" /\ last.x \succeq Zero /\ last.method \in methods)
    => (last.ret ++ nqx(obj, last.x, last.n, last.method).v) = One

\* C9: for x >= 0, n > 0 and a known method with x + n > w + 1, npx returns
\* the terminal px (px at age w) and nqx the terminal qx
C9_ClampToTerminal ==
    (/\ last.op \in {"npx", "nqx"}
     /\ last.x \succeq Zero /\ last.n \succ Zero /\ last.method \in methods
     /\ (last.x ++ last.n) \succ QI(obj.w + 1))
    => last.ret = (IF last.op = "npx" THEN obj.px[obj.w + 1]
                   ELSE obj.qx[obj.w + 1])

\* C9, its case: npx(x = w + 2, n = 1) has returned the terminal px
C9_Witness ==
    /\ last.op = "npx" /\ last.method = "udd"
    /\ last.x = QI(obj.w + 2) /\ last.n = One
    /\ last.ret = obj.px[obj.w + 1]

\* C10 as stated: for an age x >= 0, nEx(x, n) is 1 at n = 0, and 0 whenever
\* x + n > w
C10_AsStated ==
    (last.op = "nEx" /\ last.x \succeq Zero)
    => /\ last.n = Zero => last.ret = One
       /\ (last.x ++ last.n) \succ QI(obj.w) => last.ret = Zero

\* C10, amended: for an age x >= 0, nEx(x, n) is 1 for every n <= 0 (also
\* beyond w), and 0 whenever n > 0 and x + n > w
C10_PureEndowmentEdges ==
    (last.op = "nEx" /\ last.x \succeq Zero)
    => /\ last.n \preceq Zero => last.ret = One
       /\ (last.n \succ Zero /\ (last.x ++ last.n) \succ QI(obj.w))
          => last.ret = Zero

\* C10, its case: beyond w, nEx(w + 1, 0) has returned 1 and not 0
C10_Witness ==
    /\ last.op = "nEx" /\ last.x = QI(obj.w + 1) /\ last.n = Zero
    /\ last.ret = One

\* obj is the instance of the scenario: qx = 0.01 at five ages, i = 5, g = 0
OnScenario ==
    /\ obj.i = Q(5, 100) /\ obj.g = Zero /\ Len(obj.qx) = 6
    /\ \A k \in 1..5 : obj.qx[k] = Q(1, 100)

\* C11: for integers x >= 0 and n > 0 with x + n <= w, nEx(x, n) is
\* Dx[x + n] / (Dx[x] * (1 + g)^n), which is v^n * lx[x + n] / lx[x] whatever
\* the growth rate; on the scenario nEx(0, 1) = 0.99 / 1.05
C11_PureEndowmentValue ==
    (/\ last.op = "nEx"
     /\ IsInt(last.x) /\ last.x \succeq Zero
     /\ IsInt(last.n) /\ last.n \succ Zero
     /\ (last.x ++ last.n) \preceq QI(obj.w))
    => /\ last.ret = Index(obj.Dx, last.x ++ last.n)
                        // (Index(obj.Dx, last.x) ** fPow(One ++ obj.g, last.n))
       /\ last.ret = fPow(obj.v, last.n)
                        ** (Index(obj.lx, last.x ++ last.n)
                            // Index(obj.lx, last.x))
       /\ (OnScenario /\ last.x = Zero /\ last.n = One)
          => last.ret = Q(99, 105)

\* C11, its case: on the scenario nEx(0, 1) has returned 33/35
C11_Witness ==
    /\ OnScenario /\ last.op = "nEx" /\ last.x = Zero /\ last.n = One
    /\ last.ret = Q(33, 35)

\* the direct-summation value of the operation of the call record, on the
\* instance's own table and rates (given in percent)
DirectSummation ==
    LET i == obj.i ** QI(100)
        g == obj.g ** QI(100)
    IN  IF last.op = "ax"
        THEN annuities_ax(obj, last.x, i, g, last.m, "udd").v
        ELSE IF last.op = "aax"
        THEN annuities_aax(obj, last.x, i, g, last.m, "udd").v
        ELSE IF last.op = "nax"
        THEN annuities_nax(obj, last.x, last.n, i, g, last.m, "udd").v
        ELSE annuities_naax(obj, last.x, last.n, i, g, last.m, "udd").v

\* C12: for an integer age x >= 0, an integer term n >= 1 and every frequency
\* m, the commutation-based ax, aax, nax and naax return what the
\* direct-summation operations of the same name return on the same table and
\* rates, also at x >= w and x + n >= w
C12_CommutationAgreesWithSummation ==
    (/\ last.op \in {"ax", "aax", "nax", "naax"}
     /\ IsInt(last.x) /\ last.x \succeq Zero
     /\ last.op \in {"nax", "naax"} => (IsInt(last.n) /\ last.n \succeq One))
    => last.ret = DirectSummation

ValidTable ==
    \A k \in 1..Len(obj.qx) : obj.qx[k] \succeq Zero /\ obj.qx[k] \preceq One

ForcedTerminalRow(o) ==
    /\ o.qx[o.w + 1] = Zero /\ o.px[o.w + 1] = One /\ o.dx[o.w + 1] = Zero
    /\ o.lx[o.w + 2] = o.lx[o.w + 1]

\* C15: after construction qx[w] is the terminal convention last_q, whatever
\* the raw input and perc; force_qw_0 leaves qx[w] = 0, px[w] = 1, dx[w] = 0,
\* lx[w + 1] = lx[w] and does not change w
C15_TerminalConvention ==
    /\ obj.qx[obj.w + 1] = QI(obj.last_q)
    /\ [][obj' # obj => (ForcedTerminalRow(obj') /\ obj'.w = obj.w)]_vars

\* C16: on every table built from a valid input lx[w] > 0, and under the
\* certain-death convention, as constructed, lx[w + 1] = 0
C16_LastAgeWithSurvivors ==
    ValidTable =>
    /\ obj.lx[obj.w + 1] \succ Zero
    /\ (obj.last_q = 1 /\ obj.qx[obj.w + 1] = One) => obj.lx[obj.w + 2] = Zero

\* C17: with a known method, get_lx_method(x, method) is lx[x] at every
\* integer age 0 <= x <= w + 1, nan for x < 0 and 0 for x > w + 1
C17_IntegerAgesAreExact ==
    (last.op = "get_lx_method" /\ last.method \in methods)
    => /\ (IsInt(last.x) /\ last.x \succeq Zero
           /\ last.x \preceq QI(obj.w + 1))
          => last.ret = obj.lx[IntOf(last.x) + 1]
       /\ last.x \prec Zero => IsNan(last.ret)
       /\ last.x \succ QI(obj.w + 1) => last.ret = Zero

\* C17, its case: get_lx_method(w + 1, 'bal') has returned lx[w + 1] > 0
C17_Witness ==
    /\ last.op = "get_lx_method" /\ last.method = "bal"
    /\ last.x = QI(obj.w + 1)
    /\ last.ret = obj.lx[obj.w + 2] /\ last.ret \succ Zero

\* C18: when age_int is an integer and age_frac * frac is an integer,
\* age_to_index returns the index k, 0 <= k <= (w + 1) * frac, of the grid
\* point ages[k] = age_int + age_frac; for every other input it returns nan
C18_AgeToIndexIsPartial ==
    last.op = "age_to_index" =>
        IF IsInt(last.age_int) /\ IsInt(last.age_frac ** QI(obj.frac))
        THEN /\ IsInt(last.ret)
             /\ last.ret \succeq Zero
             /\ last.ret \preceq QI((obj.w + 1) * obj.frac)
             /\ IntOf(last.ret) + 1 \in 1..Len(obj.ages)
             /\ obj.ages[IntOf(last.ret) + 1] = last.age_int ++ last.age_frac
        ELSE IsNan(last.ret)

\* the vectors on the grid
FracVectors ==
    <<obj.lx_frac, obj.qx_frac, obj.px_frac, obj.dx_frac, obj.Dx_frac,
      obj.Nx_frac, obj.Sx_frac, obj.Cx_frac, obj.Mx_frac, obj.Rx_frac>>

\* C19: in every state of a CommutationFunctionsFrac instance, after queries
\* and after the setters of frac and method, the grid ages has length
\* (w + 1) * frac + 1 and spacing 1 / frac, the ten vectors have that length,
\* and lx_frac is lx interpolated by the current method at the grid ages
C19_GridFollowsFracAndMethod ==
    /\ Len(obj.ages) = (obj.w + 1) * obj.frac + 1
    /\ \A k \in 1..Len(obj.ages) : obj.ages[k] = Q(k - 1, obj.frac)
    /\ \A j \in 1..Len(FracVectors) : Len(FracVectors[j]) = Len(obj.ages)
    /\ \A k \in 1..Len(obj.ages) :
          obj.lx_frac[k] = get_lx_method(obj, obj.ages[k], obj.method)

\* C20: on an instance constructed with frac = 1 the six vectors on the grid
\* are the base commutation vectors at every integer age 0 <= x <= w
C20_FracOneIsBase ==
    Len(obj.ages) = obj.w + 2 =>
        \A x \in 1..(obj.w + 1) :
            /\ obj.Dx_frac[x] = obj.Dx[x] /\ obj.Nx_frac[x] = obj.Nx[x]
            /\ obj.Sx_frac[x] = obj.Sx[x] /\ obj.Cx_frac[x] = obj.Cx[x]
            /\ obj.Mx_frac[x] = obj.Mx[x] /\ obj.Rx_frac[x] = obj.Rx[x]

\* C20, its case: an instance constructed with frac = 1 at a positive
\* interest rate, with a positive Cx on the grid
C20_Witness ==
    /\ Len(obj.ages) = obj.w + 2 /\ obj.frac = 1 /\ obj.i \succ Zero
    /\ obj.Cx_frac[1] \succ Zero /\ obj.Cx_frac[1] = obj.Cx[1]
    /\ obj.Rx_frac[1] = obj.Rx[1]

\* lx is positive at every age 0..w
PositiveLx == \A x \in 1..(obj.w + 1) : obj.lx[x] \succ Zero

\* v is non-increasing and is the vector of the tail sums of u
TailSumOf(v, u) ==
    /\ Len(v) = Len(u)
    /\ \A x \in 1..Len(v) : v[x] = SumFrom(u, x - 1)
    /\ \A x \in 1..(Len(v) - 1) : v[x + 1] \preceq v[x]

IsPrefixOf(s, t) == Len(s) <= Len(t) /\ SubSeq(t, 1, Len(s)) = s

TableVectors == {"lx", "qx", "px", "dx"}

\* p differs from o at most in the terminal entries of qx, px, dx and lx
OnlyTerminalRowChanged(o, p) ==
    /\ DOMAIN p = DOMAIN o
    /\ \A f \in (DOMAIN o) \ TableVectors : p[f] = o[f]
    /\ \A f \in TableVectors :
          /\ Len(p[f]) = Len(o[f])
          /\ \A k \in 1..(Len(o[f]) - 1) : p[f][k] = o[f][k]

InsuranceOps == {"Ax", "Ax_", "nAx", "nAx_", "IAx", "IAx_", "nIAx", "nIAx_"}

\* the instance constructed from the same input as o with the other app_cont
OtherAppCont(o) ==
    CommutationFunctions(IntOf(o.i ** QI(100)), IntOf(o.g ** QI(100)),
                         o.data_type, o.mt, o.perc, ~o.app_cont)

\* what the insurance operation of the call record returns on the instance o
InsuranceOn(o, call) ==
    IF call.op = "Ax" THEN Ax(o, call.x).v
    ELSE IF call.op = "Ax_" THEN Ax_(o, call.x).v
    ELSE IF call.op = "nAx" THEN nAx(o, call.x, call.n).v
    ELSE IF call.op = "nAx_" THEN nAx_(o, call.x, call.n).v
    ELSE IF call.op = "IAx" THEN IAx(o, call.x).v
    ELSE IF call.op = "IAx_" THEN IAx_(o, call.x).v
    ELSE IF call.op = "nIAx" THEN nIAx(o, call.x, call.n).v
    ELSE nIAx_(o, call.x, call.n).v

\* C23: for an age x >= 0 and a term n >= 0 each of Ax, Ax_, nAx, nAx_, IAx,
\* IAx_, nIAx, nIAx_ returns on the instance what it returns on the instance
\* that differs only in app_cont, and Ax_(x) = sqrt(1 + i) * Ax(x)
C23_AdjustmentAppliedOnce ==
    (/\ last.op \in InsuranceOps
     /\ last.x \succeq Zero /\ last.n \succeq Zero)
    => /\ last.ret = InsuranceOn(OtherAppCont(obj), last)
       /\ last.op = "Ax_" => last.ret = fSqrt(One ++ obj.i) ** Ax(obj, last.x).v

\* C23, its case: on an instance built with app_cont = True at i = 300 %,
\* Ax_(x) at an age x <= w is twice Ax(x)
C23_Witness ==
    /\ last.op = "Ax_" /\ obj.app_cont /\ obj.i = QI(3)
    /\ last.x \succeq Zero /\ last.x \preceq QI(obj.w)
    /\ last.ret \succ Zero /\ last.ret = Two ** Ax(obj, last.x).v

TableState == {"lx", "qx", "px", "dx", "ex", "w"}
GridState ==
    {"ages", "frac", "method", "lx_frac", "qx_frac", "px_frac", "dx_frac",
     "Dx_frac", "Nx_frac", "Sx_frac", "Cx_frac", "Mx_frac", "Rx_frac"}

\* C24: a MortalityTable constructed with an unknown data_type or without a
\* vector holds none of lx, qx, px, dx, ex, w, and a CommutationFunctionsFrac
\* constructed with an unknown method or a frac that is not a positive int
\* holds none of ages, frac, method and the vectors on the grid; a query on
\* state that is not held raises and returns no value
C24_InvalidConstructionLeavesNoState ==
    /\ (/\ last.op = "MortalityTable"
        /\ last.data_type \notin {"l", "q", "p"} \/ last.mt = <<>>)
       => (DOMAIN obj) \cap TableState = {}
    /\ (/\ last.op = "CommutationFunctionsFrac"
        /\ \/ last.method \notin methods
           \/ last.frac[1] # "int" \/ last.frac[2] < 1)
       => (DOMAIN obj) \cap GridState = {}
    /\ (/\ last.op \in {"get_lx_method", "npx", "nqx"}
        /\ (DOMAIN obj) \cap TableState = {})
       => last.ret = Raise("AttributeError")
    /\ (last.op = "age_to_index" /\ (DOMAIN obj) \cap GridState = {})
       => last.ret = Raise("AttributeError")

\* C24, its case: age_to_index has raised on an instance that holds the
\* commutation vectors of its base class and nothing of the grid
C24_Witness ==
    /\ last.op = "age_to_index" /\ last.ret = Raise("AttributeError")
    /\ "Dx" \in DOMAIN obj /\ (DOMAIN obj) \cap GridState = {}

\* the sum over k = 0..n-1 of (first_amount + k * increase_amount) times the
\* pure endowment nEx(x, defer + k + shift)
RECURSIVE EndowmentSeries(_, _, _, _, _, _, _)
EndowmentSeries(o, x, n, defer, first_amount, increase_amount, shift) ==
    IF n = 0 THEN Zero
    ELSE EndowmentSeries(o, x, n - 1, defer, first_amount, increase_amount,
                         shift)
         ++ ((first_amount ++ (QI(n - 1) ** increase_amount))
             ** nEx(o, x, defer ++ QI(n - 1 + shift)).v)

\* the arguments of the call are integers x >= 0, n >= 1, defer >= 0 with
\* x + n + defer <= w, and no implied payment is negative
IncreasingSeriesInRange ==
    /\ IsInt(last.x) /\ last.x \succeq Zero
    /\ IsInt(last.n) /\ last.n \succeq One
    /\ IsInt(last.defer) /\ last.defer \succeq Zero
    /\ ((last.x ++ last.n) ++ last.defer) \preceq QI(obj.w)
    /\ \A k \in 0..(IntOf(last.n) - 1) :
          (last.first_amount ++ (QI(k) ** last.increase_amount)) \succeq Zero

\* C25: for g = 0, m = 1 and arguments in range, t_nIax is the sum over
\* k = 0..n-1 of (first_amount + k * increase_amount) * nEx(x, defer + k + 1)
\* and t_nIaax the same sum with nEx(x, defer + k), also for defer > 0
C25_IncreasingAnnuityIsEndowmentSeries ==
    (/\ last.op \in {"t_nIax", "t_nIaax"}
     /\ obj.g = Zero /\ last.m = One
     /\ IncreasingSeriesInRange)
    => last.ret = EndowmentSeries(obj, last.x, IntOf(last.n), last.defer,
                                  last.first_amount, last.increase_amount,
                                  IF last.op = "t_nIax" THEN 1 ELSE 0)

\* the sum over k = 0..n-1 of (first_amount + k * increase_amount) times
\* nEx(x, defer + k) times the one-year insurance at age x + defer + k
RECURSIVE InsuranceSeries(_, _, _, _, _, _, _)
InsuranceSeries(o, x, n, defer, first_amount, increase_amount, at_death) ==
    IF n = 0 THEN Zero
    ELSE InsuranceSeries(o, x, n - 1, defer, first_amount, increase_amount,
                         at_death)
         ++ (((first_amount ++ (QI(n - 1) ** increase_amount))
              ** nEx(o, x, defer ++ QI(n - 1)).v)
             ** (IF at_death
                 THEN nAx_(o, (x ++ defer) ++ QI(n - 1), One).v
                 ELSE nAx(o, (x ++ defer) ++ QI(n - 1), One).v))

\* C26: for g = 0, integers x >= 0, n >= 1, defer >= 0 with
\* x + defer + n <= w and a non-negative final amount, nIArx is the sum over
\* k = 0..n-1 of (first_amount + k * increase_amount) * nEx(x, defer + k)
\* * nAx(x + defer + k, 1), also for defer > 0, and nIArx_ the same sum with
\* nAx_
C26_IncreasingInsuranceIsYearlySeries ==
    (/\ last.op \in {"nIArx", "nIArx_"}
     /\ obj.g = Zero
     /\ IsInt(last.x) /\ last.x \succeq Zero
     /\ IsInt(last.n) /\ last.n \succeq One
     /\ IsInt(last.defer) /\ last.defer \succeq Zero
     /\ ((last.x ++ last.defer) ++ last.n) \preceq QI(obj.w)
     /\ (last.first_amount ++ ((last.n -- One) ** last.increase_amount))
           \succeq Zero)
    => last.ret = InsuranceSeries(obj, last.x, IntOf(last.n), last.defer,
                                  last.first_amount, last.increase_amount,
                                  last.op = "nIArx_")

\* C27: in every state of an instance built with app_cont = False, also after
\* force_qw_0, Dx[x] = lx[x] * d^x and Cx[x] = dx[x] * d^(x+1) at every age
\* 0 <= x <= w, and Mx and Rx are the tail sums of the current Cx and Mx
C27_VectorsFollowTable ==
    (obj.priced /\ ~obj.app_cont) =>
    /\ \A x \in 1..(obj.w + 1) :
          /\ obj.Dx[x] = obj.lx[x] ** fPow(obj.d, QI(x - 1))
          /\ obj.Cx[x] = obj.dx[x] ** fPow(obj.d, QI(x))
    /\ obj.Mx = TailSums(obj.Cx)
    /\ obj.Rx = TailSums(obj.Mx)

DeferredOps == {"t_ax", "t_aax", "t_nax", "t_naax", "t_Ax", "t_nAx"}

\* what the operation without deferment returns for the arguments of the
\* call record
Undeferred(o, call) ==
    IF call.op = "t_ax" THEN ax(o, call.x, call.m).v
    ELSE IF call.op = "t_aax" THEN aax(o, call.x, call.m).v
    ELSE IF call.op = "t_nax" THEN nax(o, call.x, call.n, call.m).v
    ELSE IF call.op = "t_naax" THEN naax(o, call.x, call.n, call.m).v
    ELSE IF call.op = "t_Ax" THEN Ax(o, call.x).v
    ELSE nAx(o, call.x, call.n).v

\* C28: with a deferment of 0, an integer age x >= 0 (also x >= w), an
\* integer term n >= 0 and an integer frequency m >= 1, each of t_ax, t_aax,
\* t_nax, t_naax, t_Ax, t_nAx returns what the operation without deferment
\* returns, and raises no error
C28_ZeroDefermentIsIdentity ==
    (/\ last.op \in DeferredOps
     /\ last.defer = Zero
     /\ IsInt(last.x) /\ last.x \succeq Zero
     /\ IsInt(last.n) /\ last.n \succeq Zero
     /\ last.op \in AnnuityOps => (IsInt(last.m) /\ last.m \succeq One))
    => /\ ~IsErr(last.ret)
       /\ last.ret = Undeferred(obj, last)

\* C29: on a valid table, in every state (either terminal convention, also
\* after force_qw_0), for an age x >= 0, a period n >= 0 and a known method,
\* npx(x, n, method) lies in [0, 1] and no longer period n2 >= n, also one
\* with x + n2 > w + 1, has a larger npx(x, n2, method)
C29_SurvivalNonIncreasing ==
    (/\ last.op = "npx" /\ last.method \in methods
     /\ last.x \succeq Zero /\ last.n \succeq Zero
     /\ ValidTable)
    => /\ last.ret \succeq Zero /\ last.ret \preceq One
       /\ \A n2 \in HalfTerms :
             n2 \succeq last.n
             => npx(obj, last.x, n2, last.method).v \preceq last.ret

\* C30: on a valid table, for every age x >= 0 (also beyond w and w + 1),
\* every period n > 0 and every known method, exn(x, n, method) is a number
\* that is neither negative nor greater than n
C30_ExpectancyWithinPeriod ==
    (/\ last.op = "exn" /\ last.method \in methods
     /\ last.x \succeq Zero /\ last.n \succ Zero
     /\ ValidTable)
    => /\ IsNum(last.ret) \/ IsInexact(last.ret)
       /\ IsNum(last.ret)
          => last.ret \succeq Zero /\ last.ret \preceq last.n

====
